---- MODULE Spec2Model ----
(***************************************************************************)
(* Dynamic query engine and access-policy lifecycle manager.               *)
(*                                                                         *)
(* Part I models the policy lifecycle manager (CreateRLSPolicy,            *)
(* UpdateRLSPolicy, DeleteRLSPolicy) as handler tasks that talk to the     *)
(* relational engine one statement at a time: every database round trip   *)
(* is one step, so the states between the statements of a handler are      *)
(* states of the model.  The engine is modelled by the rls_policies table  *)
(* (with its UNIQUE and CHECK constraints), the set of policy objects in   *)
(* force and the set of tables with row-level security enabled.            *)
(***************************************************************************)
EXTENDS Integers, Sequences, FiniteSets, TLC

(***************************************************************************)
(* Bounds of the model.                                                    *)
(***************************************************************************)
\* rows the rls_policies table ever receives (ids are never reused)
MaxPolicies == 2
\* statements the engine may fail for reasons outside the program
\* (connection loss, permission, timeout)
MaxFaults == 1
\* requests served in one behaviour
MaxRequests == 2

(***************************************************************************)
(* HTTP status codes the handlers answer with.                             *)
(***************************************************************************)
StatusOK == 200
StatusCreated == 201
StatusNoContent == 204
StatusBadRequest == 400
StatusForbidden == 403
StatusNotFound == 404
StatusConflict == 409
StatusInternalServerError == 500

(***************************************************************************)
(* Text is a sequence of one-character strings.                            *)
(***************************************************************************)
Admin == <<"a", "d", "m", "i", "n">>
Editor == <<"e", "d", "i", "t", "o", "r">>

RECURSIVE Join(_, _)
\* strings.Join(elems, sep)
Join(elems, sep) ==
    IF elems = <<>> THEN <<>>
    ELSE IF Len(elems) = 1 THEN elems[1]
    ELSE elems[1] \o sep \o Join(Tail(elems), sep)

RECURSIVE TrimLeft(_, _)
TrimLeft(s, cutset) ==
    IF s # <<>> /\ s[1] \in cutset THEN TrimLeft(Tail(s), cutset) ELSE s

RECURSIVE TrimRight(_, _)
TrimRight(s, cutset) ==
    IF s # <<>> /\ s[Len(s)] \in cutset
    THEN TrimRight(SubSeq(s, 1, Len(s) - 1), cutset)
    ELSE s

\* strings.Trim(s, cutset): strips leading and trailing characters of cutset
Trim(s, cutset) == TrimRight(TrimLeft(s, cutset), cutset)

RECURSIVE SplitFrom(_, _, _)
\* the parts of s after a part `cur` already read, split at character sep
SplitFrom(s, sep, cur) ==
    IF s = <<>> THEN <<cur>>
    ELSE IF s[1] = sep THEN <<cur>> \o SplitFrom(Tail(s), sep, <<>>)
    ELSE SplitFrom(Tail(s), sep, Append(cur, s[1]))

\* strings.Split(s, sep) for a one-character separator
Split(s, sep) == SplitFrom(s, sep, <<>>)

\* rolesArrayToJson: "[\"" + strings.Join(roles, "\",\"") + "\"]"
rolesArrayToJson(roles) ==
    <<"[", "\"">> \o Join(roles, <<"\"", ",", "\"">>) \o <<"\"", "]">>

RECURSIVE CleanParts(_)
\* the loop of parseRoles: trim quotes and blanks, keep the non-empty parts
CleanParts(parts) ==
    IF parts = <<>> THEN <<>>
    ELSE LET role == Trim(parts[1], {"\"", " "})
         IN  (IF role # <<>> THEN <<role>> ELSE <<>>) \o CleanParts(Tail(parts))

\* parseRoles
parseRoles(rolesJson) ==
    LET trimmed == Trim(rolesJson, {"[", "]"})
    IN  IF trimmed = <<>> THEN <<>> ELSE CleanParts(Split(trimmed, ","))

(***************************************************************************)
(* The relational engine.                                                  *)
(***************************************************************************)
\* tables of schema public
PublicTables == {"orders", "users"}
\* roles known to the engine
DbRoles == {Admin, Editor}
\* primary keys the engine hands out for rls_policies, in this order
PolicyIDs == 1 .. MaxPolicies

NoRow == [absent |-> TRUE]
NoPolicy == [absent |-> TRUE]

\* CHECK (action IN ('select', 'insert', 'update', 'delete', 'all'))
ActionCheck(action) == action \in {"select", "insert", "update", "delete", "all"}

\* the table without its UNIQUE (name, table_name) constraint
NoUniqueConstraint(rows, id, name, tableName) == TRUE

\* name TEXT NOT NULL, table_name TEXT NOT NULL, ... : Go strings are never NULL
\* UNIQUE (name, table_name): no row other than `id` holds the pair
UniqueNameTable(rows, id, name, tableName) ==
    \A other \in PolicyIDs \ {id} :
        rows[other] = NoRow
        \/ ~(rows[other].name = name /\ rows[other].table_name = tableName)

\* strings.ToUpper on the action text
ToUpper(action) ==
    CASE action = "select" -> "SELECT"
      [] action = "insert" -> "INSERT"
      [] action = "update" -> "UPDATE"
      [] action = "delete" -> "DELETE"
      [] action = "all" -> "ALL"
      [] OTHER -> action

\* the RLSPolicy a handler scans from a row: roles are parsed from the JSON text
ScanPolicy(row) ==
    [id |-> row.id, name |-> row.name, table_name |-> row.table_name,
     action |-> row.action, roles |-> parseRoles(row.roles),
     definition |-> row.definition]

\* the row written by INSERT / UPDATE from a request body
RowOf(id, body) ==
    [id |-> id, name |-> body.name, table_name |-> body.table_name,
     action |-> body.action, roles |-> rolesArrayToJson(body.roles),
     definition |-> body.definition]

\* CREATE POLICY without its FOR clause: the engine's default command is ALL
PolicyObjectDefaultCommand(p) ==
    [policyname |-> p.name, tablename |-> p.table_name, cmd |-> "ALL",
     roles |-> p.roles, qual |-> p.definition]

\* the policy object CREATE POLICY builds:
\* CREATE POLICY name ON table FOR upper(action) TO roles USING (definition)
PolicyObject(p) ==
    [policyname |-> p.name, tablename |-> p.table_name, cmd |-> ToUpper(p.action),
     roles |-> p.roles, qual |-> p.definition]

\* ALTER TABLE t ENABLE ROW LEVEL SECURITY succeeds on an existing table, whether
\* or not row-level security is already enabled
EnableAccepted(tableName) == tableName \in PublicTables

\* CREATE POLICY is accepted when the statement is well formed (a name, a known
\* command, at least one role, a predicate), the table and the roles exist and
\* the table has no policy of that name yet
CreateAccepted(objects, p) ==
    /\ p.name # "" /\ p.roles # <<>> /\ p.definition # ""
    /\ ActionCheck(p.action)
    /\ p.table_name \in PublicTables
    /\ \A i \in 1 .. Len(p.roles) : p.roles[i] \in DbRoles
    /\ ~\E o \in objects : o.policyname = p.name /\ o.tablename = p.table_name

\* DROP POLICY without IF EXISTS: refused when the table has no such policy
DropAcceptedStrict(objects, name, tableName) ==
    \E o \in objects : o.policyname = name /\ o.tablename = tableName

\* DROP POLICY IF EXISTS name ON table: removes the object when there is one and
\* is accepted when there is none
DropAccepted(objects, name, tableName) == TRUE

\* a DROP POLICY that names no policy of the table and removes nothing
AfterDropNothing(objects, name, tableName) == objects

AfterDrop(objects, name, tableName) ==
    {o \in objects : ~(o.policyname = name /\ o.tablename = tableName)}

\* SELECT EXISTS (SELECT FROM information_schema.tables WHERE table_name = $1)
tableExists(tableName) == tableName \in PublicTables

\* policyExists with its two arguments bound in the wrong order
policyExistsSwapped(rows, name, tableName, excludeIDs) ==
    \E id \in PolicyIDs \ excludeIDs :
        rows[id] # NoRow /\ rows[id].name = tableName /\ rows[id].table_name = name

\* SELECT EXISTS (SELECT FROM rls_policies WHERE name = $1 AND table_name = $2
\* [AND id != $3]); excludeIDs is empty when the code passes excludeID ""
policyExists(rows, name, tableName, excludeIDs) ==
    \E id \in PolicyIDs \ excludeIDs :
        rows[id] # NoRow /\ rows[id].name = name /\ rows[id].table_name = tableName

\* UpdateRLSPolicy dropping the policy named by the values it has just written
DropTargetNew(old, new) == <<new.name, new.table_name>>

\* what the handler of a request does with the policy object of the old
\* record: it drops the object named by the metadata read before the UPDATE
DropTarget(old, new) == <<old.name, old.table_name>>

(***************************************************************************)
(* Requests.                                                               *)
(***************************************************************************)
Handlers == {"h1", "h2"}

\* the (action, roles, definition) parts of the request bodies
ReadAll == [action |-> "select", roles |-> <<Admin>>, definition |-> "true"]
OwnerAll ==
    [action |-> "all", roles |-> <<Admin, Editor>>,
     definition |-> "owner = current_user"]

Body(name, tableName, shape) ==
    [name |-> name, table_name |-> tableName, action |-> shape.action,
     roles |-> shape.roles, definition |-> shape.definition]

\* a body that fails the required-field validation of CreateRLSPolicy
EmptyBody ==
    [name |-> "", table_name |-> "orders", action |-> "select", roles |-> <<>>,
     definition |-> ""]

\* the request bodies: a policy, the same with another action, role list and
\* definition, with another name, on another table, on a table that does not
\* exist, and an incomplete body
Bodies ==
    {Body("p1", "orders", ReadAll), Body("p1", "orders", OwnerAll),
     Body("p2", "orders", ReadAll), Body("p1", "users", ReadAll),
     Body("p1", "ghost", ReadAll), EmptyBody}

NoBody == [absent |-> TRUE]

(***************************************************************************)
(* The custom-query endpoint: the statement classifier and the write gate. *)
(***************************************************************************)
\* the longest statement submitted, in words
MaxWords == 3

Lower ==
    <<"a", "b", "c", "d", "e", "f", "g", "h", "i", "j", "k", "l", "m",
      "n", "o", "p", "q", "r", "s", "t", "u", "v", "w", "x", "y", "z">>
Upper ==
    <<"A", "B", "C", "D", "E", "F", "G", "H", "I", "J", "K", "L", "M",
      "N", "O", "P", "Q", "R", "S", "T", "U", "V", "W", "X", "Y", "Z">>

\* the upper-case letter of every lower-case letter
UpperCase ==
    [c \in {Lower[k] : k \in DOMAIN Lower} |->
        Upper[CHOOSE k \in DOMAIN Lower : Lower[k] = c]]

\* strings.ToUpper on a text
ToUpperText(s) ==
    [i \in DOMAIN s |-> IF s[i] \in DOMAIN UpperCase THEN UpperCase[s[i]] ELSE s[i]]

\* strings.Contains
Contains(s, substr) ==
    \E i \in 0 .. Len(s) - Len(substr) : SubSeq(s, i + 1, i + Len(substr)) = substr

\* trimSpaces drops every space, newline, tab and carriage return of the
\* text, the inner ones included
trimSpaces(s) == SelectSeq(s, LAMBDA c : c \notin {" ", "\n", "\t", "\r"})

containsString(s, substr) == Contains(ToUpperText(s), ToUpperText(substr))

SELECT == <<"S", "E", "L", "E", "C", "T">>
INSERT == <<"I", "N", "S", "E", "R", "T">>
UPDATE == <<"U", "P", "D", "A", "T", "E">>
DELETE == <<"D", "E", "L", "E", "T", "E">>
DROP == <<"D", "R", "O", "P">>
ALTER == <<"A", "L", "T", "E", "R">>
CREATE == <<"C", "R", "E", "A", "T", "E">>
select == <<"s", "e", "l", "e", "c", "t">>

isSelectQuery(sql) ==
    LET trimmedSQL == trimSpaces(sql) IN
    IF Len(trimmedSQL) >= 6
       /\ (SubSeq(trimmedSQL, 1, 6) = SELECT \/ SubSeq(trimmedSQL, 1, 6) = select)
    THEN IF \/ containsString(trimmedSQL, INSERT)
            \/ containsString(trimmedSQL, UPDATE)
            \/ containsString(trimmedSQL, DELETE)
            \/ containsString(trimmedSQL, DROP)
            \/ containsString(trimmedSQL, ALTER)
            \/ containsString(trimmedSQL, CREATE)
         THEN FALSE
         ELSE TRUE
    ELSE FALSE

\* c.Locals("user"): nil when no principal was attached to the request
NoUser == "nil"
Users == {NoUser, "alice"}

\* a placeholder check that would let every caller write
CheckRLSAllowAll(user) == [allowed |-> TRUE, err |-> FALSE]

\* middleware.CheckRLS: denies with an error when there is no principal and
\* allows every other caller
CheckRLS(user) ==
    IF user = NoUser
    THEN [allowed |-> FALSE, err |-> TRUE]
    ELSE [allowed |-> TRUE, err |-> FALSE]

\* the words the submitted statements are made of
Words ==
    { SELECT, select, <<"S", "e", "l", "e", "c", "t">>,
      <<"S", "E", "L">>, <<"E", "C", "T">>,
      <<" ">>, <<"\n">>, <<"1">>,
      INSERT, <<"u", "p", "d", "a", "t", "e">>, DELETE,
      <<"D", "r", "o", "p">>, ALTER, <<"c", "r", "e", "a", "t", "e">> }

RECURSIVE Texts(_)
Texts(n) ==
    IF n = 0 THEN {<<>>}
    ELSE Texts(n - 1) \cup {t \o w : t \in Texts(n - 1), w \in Words}

\* the request bodies of the custom-query endpoint; Malformed does not parse
Malformed == [parsed |-> FALSE, SQL |-> <<>>]
QueryRequests == {Malformed} \cup {[parsed |-> TRUE, SQL |-> s] : s \in Texts(MaxWords)}
NoRequest == [parsed |-> TRUE, SQL |-> <<>>]

(***************************************************************************)
(* The SQL text the service generates.  A statement is a sequence of       *)
(* pieces; the text of a piece is a sequence whose elements are either one *)
(* character of request text or one fixed fragment of a format string.  A  *)
(* piece that embeds an identifier of the request records the identifier.  *)
(***************************************************************************)
\* the most filter parameters of one request
MaxFilters == 2

Quote == "\""

\* a fixed fragment of a format string
Lit(s) == [text |-> <<s>>, of |-> <<>>]
\* request text embedded as it is, not an identifier
Raw(t) == [text |-> t, of |-> <<>>]
\* the text embedded for the identifier name
Ident(t, name) == [text |-> t, of |-> <<name>>]

RECURSIVE SqlText(_)
\* the statement as the database receives it
SqlText(pieces) ==
    IF pieces = <<>> THEN <<>> ELSE pieces[1].text \o SqlText(Tail(pieces))

RECURSIVE DoubleQuotes(_)
\* strings.ReplaceAll(s, `"`, `""`)
DoubleQuotes(s) ==
    IF s = <<>> THEN <<>>
    ELSE (IF s[1] = Quote THEN <<Quote, Quote>> ELSE <<s[1]>>) \o DoubleQuotes(Tail(s))

\* pgx.Identifier{name}.Sanitize(): the name between quotes, its own quotes
\* doubled
Sanitize(name) == <<Quote>> \o DoubleQuotes(name) \o <<Quote>>

\* fmt.Sprintf("\"%s\"", name): the name between quotes, as it is
Quoted(name) == <<Quote>> \o name \o <<Quote>>

Digits == <<"0", "1", "2", "3", "4", "5", "6", "7", "8", "9">>

RECURSIVE Itoa(_)
\* the decimal text of a natural number, one string
Itoa(n) == IF n < 10 THEN Digits[n + 1] ELSE Itoa(n \div 10) \o Digits[(n % 10) + 1]

\* the placeholder $n
Placeholder(n) == Lit("$" \o Itoa(n))

RECURSIVE JoinPieces(_, _)
\* strings.Join over texts that are embedded piece by piece
JoinPieces(parts, sep) ==
    IF parts = <<>> THEN <<>>
    ELSE IF Len(parts) = 1 THEN parts[1]
    ELSE parts[1] \o <<Lit(sep)>> \o JoinPieces(Tail(parts), sep)

\* the RLSPolicy a statement is generated for, its texts character by character
TextPolicy(name, tableName, action, roles, definition) ==
    [Name |-> name, TableName |-> tableName, Action |-> action, Roles |-> roles,
     Definition |-> definition]

\* applyRLSPolicy: "ALTER TABLE %s ENABLE ROW LEVEL SECURITY"
enableQuery(p) ==
    <<Lit("ALTER TABLE "), Ident(Sanitize(p.TableName), p.TableName),
      Lit(" ENABLE ROW LEVEL SECURITY")>>

\* applyRLSPolicy: "CREATE POLICY %s ON %s FOR %s TO %s USING (%s)", the roles
\* joined by ", " as they are
createQuery(p) ==
    <<Lit("CREATE POLICY "), Ident(Sanitize(p.Name), p.Name),
      Lit(" ON "), Ident(Sanitize(p.TableName), p.TableName),
      Lit(" FOR "), Raw(ToUpperText(p.Action)), Lit(" TO ")>>
    \o JoinPieces([i \in DOMAIN p.Roles |-> <<Ident(p.Roles[i], p.Roles[i])>>], ", ")
    \o <<Lit(" USING ("), Raw(p.Definition), Lit(")")>>

\* dropRLSPolicy: "DROP POLICY IF EXISTS %s ON %s"
dropQuery(p) ==
    <<Lit("DROP POLICY IF EXISTS "), Ident(Sanitize(p.Name), p.Name),
      Lit(" ON "), Ident(Sanitize(p.TableName), p.TableName)>>

RECURSIVE SplitStrFrom(_, _, _)
\* the parts of s after a part `cur` already read, split at the text sep
SplitStrFrom(s, sep, cur) ==
    IF s = <<>> THEN <<cur>>
    ELSE IF Len(s) >= Len(sep) /\ SubSeq(s, 1, Len(sep)) = sep
         THEN <<cur>> \o SplitStrFrom(SubSeq(s, Len(sep) + 1, Len(s)), sep, <<>>)
         ELSE SplitStrFrom(Tail(s), sep, Append(cur, s[1]))

\* strings.Split(s, sep) for a separator of any length
SplitStr(s, sep) == SplitStrFrom(s, sep, <<>>)

\* strings.TrimSpace
TrimSpace(s) == Trim(s, {" ", "\t", "\n", "\r"})

\* operator names of the filter keys
gt == <<"g", "t">>
gte == <<"g", "t", "e">>
lt == <<"l", "t">>
lte == <<"l", "t", "e">>
ne == <<"n", "e">>
neq == <<"n", "e", "q">>
eq == <<"e", "q">>
like == <<"l", "i", "k", "e">>
in == <<"i", "n">>

\* one comparison "<field> <op> $n" binding one argument
Comparison(fieldName, op, argIdx, arg) ==
    [cond |-> fieldName \o <<Lit(op), Placeholder(argIdx)>>, args |-> <<arg>>]

\* "<field> IN ($n<sep>$n+1...)" binding one argument per value
InList(fieldName, argIdx, values, sep) ==
    [cond |-> fieldName \o <<Lit(" IN (")>>
              \o JoinPieces([i \in DOMAIN values |-> <<Placeholder(argIdx + i - 1)>>], sep)
              \o <<Lit(")")>>,
     args |-> values]

\* BuildWhereClause, one turn of the loop over qp.Filters: the condition and
\* the arguments the filter adds (none for an empty value)
WhereCondition(field, value, argIdx) ==
    LET parts == SplitStr(field, <<"_", "_">>) IN
    IF value = <<>> THEN [cond |-> <<>>, args |-> <<>>]
    ELSE IF Len(parts) = 2
    THEN LET fieldName == <<Lit("t."), Ident(Quoted(parts[1]), parts[1])>> IN
         CASE parts[2] = gt -> Comparison(fieldName, " > ", argIdx, value)
           [] parts[2] = gte -> Comparison(fieldName, " >= ", argIdx, value)
           [] parts[2] = lt -> Comparison(fieldName, " < ", argIdx, value)
           [] parts[2] = lte -> Comparison(fieldName, " <= ", argIdx, value)
           [] parts[2] = ne -> Comparison(fieldName, " != ", argIdx, value)
           [] parts[2] = like ->
                Comparison(fieldName, " ILIKE ", argIdx, <<"%">> \o value \o <<"%">>)
           [] parts[2] = in ->
                LET values == Split(value, ",") IN
                InList(fieldName, argIdx,
                       [i \in DOMAIN values |-> TrimSpace(values[i])], ",")
           [] OTHER -> Comparison(fieldName, " = ", argIdx, value)
    ELSE Comparison(<<Lit("t."), Ident(Quoted(field), field)>>, " = ", argIdx, value)

RECURSIVE WhereLoop(_, _)
\* BuildWhereClause, the loop over qp.Filters in the order the map yields them
WhereLoop(filters, argIdx) ==
    IF filters = <<>> THEN [conditions |-> <<>>, args |-> <<>>]
    ELSE LET c == WhereCondition(filters[1].key, filters[1].value, argIdx)
             rest == WhereLoop(Tail(filters), argIdx + Len(c.args))
         IN  [conditions |-> (IF c.cond = <<>> THEN <<>> ELSE <<c.cond>>)
                             \o rest.conditions,
              args |-> c.args \o rest.args]

\* QueryParams.BuildWhereClause
BuildWhereClause(qp) ==
    LET search ==
            IF qp.Search # <<>>
            THEN [conditions |->
                    <<<<Lit("(to_tsvector('english', to_jsonb(t)::text) @@ plainto_tsquery('english', "),
                        Placeholder(1), Lit("))")>>>>,
                  args |-> <<qp.Search>>]
            ELSE [conditions |-> <<>>, args |-> <<>>]
         loop == WhereLoop(qp.Filters, 1 + Len(search.args))
         conditions == search.conditions \o loop.conditions
    IN  IF conditions = <<>>
        THEN [clause |-> <<>>, args |-> <<>>, conditions |-> <<>>]
        ELSE [clause |-> <<Lit("WHERE ")>> \o JoinPieces(conditions, " AND "),
              args |-> search.args \o loop.args, conditions |-> conditions]

\* the characters BuildOrderByClause keeps: letters, digits, underscore, dot
WordChars ==
    {Lower[i] : i \in DOMAIN Lower} \cup {Upper[i] : i \in DOMAIN Upper}
    \cup {Digits[i] : i \in DOMAIN Digits} \cup {"_", "."}

idColumn == <<"i", "d">>

\* QueryParams.BuildOrderByClause
BuildOrderByClause(qp) ==
    IF qp.SortBy = <<>> THEN <<>>
    ELSE LET kept == SelectSeq(qp.SortBy, LAMBDA c : c \in WordChars)
             sanitized == IF kept = <<>> THEN idColumn ELSE kept
         IN  <<Lit("ORDER BY "), Ident(sanitized, qp.SortBy), Lit(" "), Lit(qp.SortOrder)>>
             \o (IF sanitized # idColumn THEN <<Lit(", id "), Lit(qp.SortOrder)>> ELSE <<>>)

\* QueryParams.BuildPaginationClause: each placeholder is numbered by the
\* arguments of this clause alone
BuildPaginationClause(qp) ==
    IF qp.Limit <= 0 /\ qp.Offset <= 0 THEN [clause |-> <<>>, args |-> <<>>]
    ELSE LET limit == IF qp.Limit > 0
                      THEN [clauses |-> <<<<Lit("LIMIT "), Placeholder(1)>>>>,
                            args |-> <<qp.Limit>>]
                      ELSE [clauses |-> <<>>, args |-> <<>>]
             offset == IF qp.Offset > 0
                       THEN [clauses |-> <<<<Lit("OFFSET "),
                                             Placeholder(Len(limit.args) + 1)>>>>,
                             args |-> <<qp.Offset>>]
                       ELSE [clauses |-> <<>>, args |-> <<>>]
         IN  [clause |-> JoinPieces(limit.clauses \o offset.clauses, " "),
              args |-> limit.args \o offset.args]

\* s appended after a blank when it is not empty
Then(s) == IF s = <<>> THEN <<>> ELSE <<Lit(" ")>> \o s

\* QueryBuilder.Find: the statement and its arguments
FindQuery(qb, qp) ==
    LET where == BuildWhereClause(qp)
        pagination == BuildPaginationClause(qp)
    IN  [sql |-> <<Lit("SELECT "), Raw(Join(qb.selectCols, <<",", " ">>)), Lit(" FROM "),
                   Ident(Quoted(qb.tableName), qb.tableName), Lit(" t")>>
                 \o Then(IF qb.joinClause = <<>> THEN <<>> ELSE <<Raw(qb.joinClause)>>)
                 \o Then(where.clause)
                 \o Then(BuildOrderByClause(qp))
                 \o Then(pagination.clause),
         args |-> where.args \o pagination.args]

\* QueryBuilder.Count: the statement and its arguments
CountQuery(qb, qp) ==
    LET where == BuildWhereClause(qp)
    IN  [sql |-> <<Lit("SELECT COUNT(*) FROM "),
                   Ident(Quoted(qb.tableName), qb.tableName), Lit(" t")>>
                 \o Then(IF qb.joinClause = <<>> THEN <<>> ELSE <<Raw(qb.joinClause)>>)
                 \o Then(where.clause),
         args |-> where.args]

\* the reserved parameters of the table handlers
page == <<"p", "a", "g", "e">>
page_size == <<"p", "a", "g", "e", "_", "s", "i", "z", "e">>
order_by == <<"o", "r", "d", "e", "r", "_", "b", "y">>
order_dir == <<"o", "r", "d", "e", "r", "_", "d", "i", "r">>

\* buildQueryFilters, one visited parameter: the condition and the arguments
\* it adds (none for a reserved key or an unknown operator)
FilterCondition(k, v, paramCounter) ==
    LET parts == Split(k, ".") IN
    IF k \in {page, page_size, order_by, order_dir} THEN [cond |-> <<>>, args |-> <<>>]
    ELSE IF Len(parts) = 2
    THEN LET column == <<Ident(Sanitize(parts[1]), parts[1])>> IN
         CASE parts[2] = eq -> Comparison(column, " = ", paramCounter, v)
           [] parts[2] = neq -> Comparison(column, " != ", paramCounter, v)
           [] parts[2] = gt -> Comparison(column, " > ", paramCounter, v)
           [] parts[2] = gte -> Comparison(column, " >= ", paramCounter, v)
           [] parts[2] = lt -> Comparison(column, " < ", paramCounter, v)
           [] parts[2] = lte -> Comparison(column, " <= ", paramCounter, v)
           [] parts[2] = like ->
                Comparison(column, " LIKE ", paramCounter, <<"%">> \o v \o <<"%">>)
           [] parts[2] = in -> InList(column, paramCounter, Split(v, ","), ", ")
           [] OTHER -> [cond |-> <<>>, args |-> <<>>]
    ELSE Comparison(<<Ident(Sanitize(k), k)>>, " = ", paramCounter, v)

RECURSIVE buildQueryFilters(_, _)
\* buildQueryFilters over the parameters of the request in the order they are
\* visited: [wheres, params]
buildQueryFilters(queryArgs, paramCounter) ==
    IF queryArgs = <<>> THEN [wheres |-> <<>>, params |-> <<>>]
    ELSE LET c == FilterCondition(queryArgs[1].key, queryArgs[1].value, paramCounter)
             rest == buildQueryFilters(Tail(queryArgs), paramCounter + Len(c.args))
         IN  [wheres |-> (IF c.cond = <<>> THEN <<>> ELSE <<c.cond>>) \o rest.wheres,
              params |-> c.args \o rest.params]

\* c.Query(key, defaultValue): the first value of the parameter, the default
\* when it is missing or empty
Query(queryArgs, key, defaultValue) ==
    LET at == {i \in DOMAIN queryArgs : queryArgs[i].key = key} IN
    IF at = {} THEN defaultValue
    ELSE LET v == queryArgs[CHOOSE i \in at : \A j \in at : i <= j].value
         IN  IF v = <<>> THEN defaultValue ELSE v

RECURSIVE Number(_)
\* the value of a text of decimal digits
Number(s) ==
    IF s = <<>> THEN 0
    ELSE 10 * Number(SubSeq(s, 1, Len(s) - 1))
         + (CHOOSE d \in 0 .. 9 : Digits[d + 1] = s[Len(s)])

\* the width of int in bits, and the integers it holds
IntBits == 16
MaxInt == 2 ^ (IntBits - 1) - 1
MinInt == 0 - 2 ^ (IntBits - 1)

\* the int that an integer operation leaves: the result modulo 2^IntBits
Wrap(n) ==
    LET m == n % (2 ^ IntBits) IN IF m > MaxInt THEN m - 2 ^ IntBits ELSE m

\* the number a text writes, were int wide enough: [ok, n]
Parsed(s) ==
    LET AllDigits(t) ==
            t # <<>> /\ \A i \in DOMAIN t : \E d \in DOMAIN Digits : Digits[d] = t[i]
    IN  IF AllDigits(s) THEN [ok |-> TRUE, n |-> Number(s)]
        ELSE IF s # <<>> /\ s[1] = "-" /\ AllDigits(Tail(s))
        THEN [ok |-> TRUE, n |-> 0 - Number(Tail(s))]
        ELSE IF s # <<>> /\ s[1] = "+" /\ AllDigits(Tail(s))
        THEN [ok |-> TRUE, n |-> Number(Tail(s))]
        ELSE [ok |-> FALSE, n |-> 0]

\* strconv.Atoi, the value: 0 for a text that is not a number, the nearest
\* int for a number that int does not hold
Atoi(s) ==
    IF Parsed(s).n > MaxInt THEN MaxInt
    ELSE IF Parsed(s).n < MinInt THEN MinInt
    ELSE Parsed(s).n

\* strconv.Atoi, the error: for a text that is not a number and for a number
\* that int does not hold
AtoiErr(s) == ~Parsed(s).ok \/ Parsed(s).n > MaxInt \/ Parsed(s).n < MinInt

RECURSIVE Decimal(_)
\* the decimal text of a natural number, character by character
Decimal(n) ==
    IF n < 10 THEN <<Digits[n + 1]>>
    ELSE Append(Decimal(n \div 10), Digits[(n % 10) + 1])

\* fmt.Sprintf("%d", n)
FormatInt(n) == IF n < 0 THEN "-" \o Itoa(0 - n) ELSE Itoa(n)

\* the reserved parameters of ParseQueryParams
limitKey == <<"l", "i", "m", "i", "t">>
offsetKey == <<"o", "f", "f", "s", "e", "t">>
sort_by == <<"s", "o", "r", "t", "_", "b", "y">>
sort_order == <<"s", "o", "r", "t", "_", "o", "r", "d", "e", "r">>
qKey == <<"q">>

\* strings.EqualFold on the texts of the model
EqualFold(s, t) == ToUpperText(s) = ToUpperText(t)

\* isReservedParam
isReservedParam(key) ==
    \E r \in {limitKey, offsetKey, sort_by, sort_order, qKey} : EqualFold(key, r)

\* url.Values.Get: the first value of the key, empty when the key is missing
Get(values, key) ==
    LET at == {i \in DOMAIN values : values[i].key = key} IN
    IF at = {} THEN <<>>
    ELSE values[CHOOSE i \in at : \A j \in at : i <= j].value

\* ParseQueryParams; Filters is the map, a set of key/value pairs holding the
\* first value of every key that is not reserved
ParseQueryParams(values) ==
    LET limitStr == Get(values, limitKey)
        offsetStr == Get(values, offsetKey)
        sortBy == Get(values, sort_by)
        sortOrder == Get(values, sort_order)
    IN  [Limit |-> IF limitStr # <<>> /\ ~AtoiErr(limitStr) /\ Atoi(limitStr) > 0
                   THEN Atoi(limitStr) ELSE 25,
         Offset |-> IF offsetStr # <<>> /\ ~AtoiErr(offsetStr) /\ Atoi(offsetStr) >= 0
                    THEN Atoi(offsetStr) ELSE 0,
         SortBy |-> IF sortBy # <<>> THEN sortBy ELSE idColumn,
         SortOrder |-> IF sortOrder \in {<<"d", "e", "s", "c">>, <<"D", "E", "S", "C">>}
                       THEN "DESC" ELSE "ASC",
         Filters |-> {[key |-> values[i].key, value |-> Get(values, values[i].key)] :
                        i \in {j \in DOMAIN values : ~isReservedParam(values[j].key)}},
         Search |-> Get(values, qKey)]

\* the orders in which a range over a map can yield its entries
Orderings(entries) ==
    {l \in [1 .. Cardinality(entries) -> entries] :
        \A i, j \in DOMAIN l : l[i] = l[j] => i = j}

\* GetTableRows: the clamped page and page size
PageOf(queryArgs) ==
    LET n == Atoi(Query(queryArgs, page, <<"1">>)) IN IF n < 1 THEN 1 ELSE n
PageSizeOf(queryArgs) ==
    LET n == Atoi(Query(queryArgs, page_size, <<"1", "0">>))
    IN  IF n < 1 \/ n > 100 THEN 10 ELSE n
\* GetTableRows: offset := (page - 1) * pageSize in int arithmetic
OffsetOf(queryArgs) == Wrap((PageOf(queryArgs) - 1) * PageSizeOf(queryArgs))

\* GetTableRows: the WHERE part shared by the listing and the count
WherePart(queryFilters) ==
    IF Len(queryFilters.wheres) > 0
    THEN <<Lit(" WHERE ")>> \o JoinPieces(queryFilters.wheres, " AND ")
    ELSE <<>>

\* GetTableRows: the listing statement
RowsQuery(tableName, queryArgs) ==
    LET queryFilters == buildQueryFilters(queryArgs, 1)
        orderBy == Query(queryArgs, order_by, <<>>)
        orderDir == Query(queryArgs, order_dir, <<"a", "s", "c">>)
        pageSize == PageSizeOf(queryArgs)
        offset == OffsetOf(queryArgs)
    IN  [sql |-> <<Lit("SELECT * FROM "), Ident(Sanitize(tableName), tableName)>>
                 \o WherePart(queryFilters)
                 \o (IF orderBy # <<>>
                     THEN <<Lit(" ORDER BY "), Ident(Sanitize(orderBy), orderBy),
                            Lit(" "), Raw(orderDir)>>
                     ELSE <<>>)
                 \o <<Lit(" LIMIT "), Lit(FormatInt(pageSize)), Lit(" OFFSET "),
                      Lit(FormatInt(offset))>>,
         args |-> queryFilters.params]

\* GetTableRows: the count statement
RowsCountQuery(tableName, queryArgs) ==
    LET queryFilters == buildQueryFilters(queryArgs, 1)
    IN  [sql |-> <<Lit("SELECT COUNT(*) FROM "), Ident(Sanitize(tableName), tableName)>>
                 \o WherePart(queryFilters),
         args |-> queryFilters.params]

\* the columns of the listed tables
active == <<"a", "c", "t", "i", "v", "e">>
created_at == <<"c", "r", "e", "a", "t", "e", "d", "_", "a", "t">>
TableColumns == {idColumn, <<"a", Quote, "b">>, <<"n">>, active, created_at}

\* the most rows of a table that match the filters of a listing
MaxMatching == 15
Matching == 0 .. MaxMatching

\* the database rejects the listing of GetTableRows: a comparison or the
\* ORDER BY names a column the table does not have, or OFFSET is negative
Rejected(queryArgs) ==
    LET queryFilters == buildQueryFilters(queryArgs, 1)
        orderBy == Query(queryArgs, order_by, <<>>)
    IN  \/ \E i \in DOMAIN queryFilters.wheres :
            queryFilters.wheres[i][1].of[1] \notin TableColumns
        \/ orderBy # <<>> /\ orderBy \notin TableColumns
        \/ OffsetOf(queryArgs) < 0

\* the rows the database returns for LIMIT pageSize OFFSET offset out of the
\* matching ones, by their position in the order the listing has
RowsAt(matching, pageSize, offset) ==
    {k \in 1 .. matching : offset < k /\ k <= offset + pageSize}

\* GetTableRows: the body of the answer
RowsAnswer(queryArgs, matching) ==
    [matching |-> matching,
     data |-> RowsAt(matching, PageSizeOf(queryArgs), OffsetOf(queryArgs)),
     page |-> PageOf(queryArgs),
     page_size |-> PageSizeOf(queryArgs),
     total |-> matching,
     total_pages |-> (matching + PageSizeOf(queryArgs) - 1) \div PageSizeOf(queryArgs)]

\* the identifiers submitted: plain ones and ones that hold a quote
PolicyNames == {<<"p", "1">>, <<"p", Quote, "1">>}
TableNames == {<<"o", "r", "d", "e", "r", "s">>, <<"o", Quote, "x">>}
Columns == {idColumn, <<"a", Quote, "b">>}
RoleLists == {<<>>, <<Admin>>, <<Admin, Editor>>, <<<<"a", ",", " ", "b">>>>}

TextPolicies ==
    {TextPolicy(n, t, a, r, <<"t", "r", "u", "e">>) :
        n \in PolicyNames, t \in TableNames, a \in {select, <<"A", "L", "L">>},
        r \in RoleLists}

Pair(k, v) == [key |-> k, value |-> v]

\* the filters that requests to the query builder combine: a column__operator
\* key, bare columns, a column that holds a quote, a list for in, an empty
\* value, and a parameter of the table handlers
FindPairs ==
    {Pair(idColumn \o <<"_", "_">> \o gt, <<"v">>),
     Pair(idColumn, <<"v">>),
     Pair(<<"a", Quote, "b">> \o <<"_", "_">> \o lt, <<"v">>),
     Pair(idColumn \o <<"_", "_">> \o in, <<"a", ",", " ", "b">>),
     Pair(idColumn, <<>>),
     Pair(page, <<"2">>)}

\* the parameters submitted to the query builder one at a time: every operator,
\* an unknown one, lists for in that hold nothing, the other parameters of the
\* table handlers, and a reserved parameter in upper case
FindSingles ==
    {Pair(idColumn \o <<"_", "_">> \o op, <<"v">>) :
        op \in {gt, gte, lt, lte, ne, neq, eq, like, in, <<"z", "z">>}}
    \cup {Pair(idColumn \o <<"_", "_">> \o in, <<>>),
          Pair(idColumn \o <<"_", "_">> \o in, <<",">>),
          Pair(page_size, <<"5">>), Pair(order_by, idColumn),
          Pair(order_dir, <<"d", "e", "s", "c">>),
          Pair(<<"L", "I", "M", "I", "T">>, <<"5">>),
          Pair(limitKey, Decimal(MaxInt) \o <<"0">>)}

\* the filters that requests for a row listing combine: a column.operator key,
\* bare columns, a column that holds a quote, a list for in, an unknown
\* operator, and a parameter of the query builder
RowsPairs ==
    {Pair(idColumn \o <<".">> \o eq, <<"v">>),
     Pair(idColumn, <<"v">>),
     Pair(<<"a", Quote, "b">> \o <<".">> \o lt, <<"v">>),
     Pair(idColumn \o <<".">> \o in, <<"a", ",", " ", "b">>),
     Pair(idColumn \o <<".">> \o <<"z", "z">>, <<"v">>),
     Pair(limitKey, <<"1", "0">>)}

\* the parameters submitted to a row listing one at a time: every operator,
\* lists for in that hold nothing, an empty value, and the other parameters of
\* the query builder
RowsSingles ==
    {Pair(idColumn \o <<".">> \o op, <<"v">>) :
        op \in {eq, neq, gt, gte, lt, lte, like, in}}
    \cup {Pair(idColumn \o <<".">> \o in, <<>>),
          Pair(idColumn \o <<".">> \o in, <<",">>),
          Pair(idColumn \o <<".">> \o eq, <<>>),
          Pair(offsetKey, <<"2", "0">>), Pair(sort_by, idColumn),
          Pair(sort_order, <<"d", "e", "s", "c">>), Pair(qKey, <<"s">>)}

\* the paging and sorting parameters of a request for a row listing
RowsDirectives ==
    {<<>>,
     <<Pair(page, <<"2">>)>>,
     <<Pair(page, <<"x">>), Pair(page_size, <<"5", "0", "0">>)>>,
     <<Pair(page, <<"0">>), Pair(page_size, <<"0">>)>>,
     <<Pair(page, <<"-", "1">>), Pair(page_size, <<"-", "5">>)>>,
     <<Pair(page, <<"3">>), Pair(page_size, <<"5">>)>>,
     <<Pair(order_by, <<"a", Quote, "b">>), Pair(order_dir, <<"d", "e", "s", "c">>)>>,
     <<Pair(order_by, idColumn)>>,
     <<Pair(order_by, <<"n">>)>>,
     <<Pair(page, Decimal(MaxInt))>>,
     <<Pair(page, Decimal(2 ^ IntBits \div 10 + 2))>>,
     <<Pair(page, Decimal(MaxInt) \o <<"0">>), Pair(page_size, <<"1", "0", "0">>)>>}

\* the request of the first end-to-end scenario, and the same listing asked
\* with the parameters of the table handler
Scenario1 ==
    <<Pair(active \o <<".">> \o eq, <<"t", "r", "u", "e">>),
      Pair(sort_by, created_at), Pair(sort_order, <<"d", "e", "s", "c">>),
      Pair(page, <<"2">>), Pair(page_size, <<"1", "0">>)>>
Scenario1Ordered ==
    <<Pair(active \o <<".">> \o eq, <<"t", "r", "u", "e">>),
      Pair(order_by, created_at), Pair(order_dir, <<"d", "e", "s", "c">>),
      Pair(page, <<"2">>), Pair(page_size, <<"1", "0">>)>>

\* the sequences of at most n pairs
RECURSIVE Lists(_, _)
Lists(pairs, n) ==
    IF n = 0 THEN {<<>>}
    ELSE Lists(pairs, n - 1)
         \cup {Append(l, x) : l \in Lists(pairs, n - 1), x \in pairs}

\* a map holds a key once
DistinctKeys(l) == \A i, j \in DOMAIN l : l[i].key = l[j].key => i = j

\* the paging, sorting and search parameters of a request to the query builder
Directives ==
    {<<>>,
     <<Pair(limitKey, <<"1", "0">>), Pair(offsetKey, <<"2", "0">>)>>,
     <<Pair(limitKey, <<"x">>), Pair(offsetKey, <<"-", "1">>)>>,
     <<Pair(limitKey, <<"0">>), Pair(offsetKey, Decimal(MaxInt) \o <<"0">>)>>,
     <<Pair(sort_by, <<"n", "a", ";", "m", "e">>),
       Pair(sort_order, <<"d", "e", "s", "c">>)>>,
     <<Pair(sort_by, idColumn), Pair(sort_order, <<"u", "p">>)>>,
     <<Pair(qKey, <<"s">>)>>,
     <<Pair(qKey, <<"s">>), Pair(limitKey, <<"5">>), Pair(offsetKey, <<"5">>)>>}

\* the url.Values handed to ParseQueryParams
FindValues ==
    {d \o f : d \in Directives, f \in Lists(FindPairs, MaxFilters)}
    \cup {<<x>> : x \in FindSingles}

\* the parameters of a request for a row listing, in the order they are visited
RowsValues ==
    {d \o f : d \in RowsDirectives, f \in Lists(RowsPairs, MaxFilters)}
    \cup {<<x>> : x \in RowsSingles}
    \cup {Scenario1, Scenario1Ordered}

\* NewQueryBuilder(tableName), and one with Select and Join applied
QueryBuilders ==
    {[tableName |-> t, selectCols |-> <<<<"*">>>>, joinClause |-> <<>>] : t \in TableNames}
    \cup {[tableName |-> <<"o", "r", "d", "e", "r", "s">>,
           selectCols |-> <<<<"t", ".", "i", "d">>, <<"u", ".", "n">>>>,
           joinClause |-> <<"JOIN users u ON u.id = t.user_id">>]}

(***************************************************************************)
(* The tables the row handlers work on.  A table is the sequence of its    *)
(* rows in heap order, a row a function from the columns to their values.  *)
(***************************************************************************)
\* the most rows a table holds
MaxRows == 3
MaxWrites == 2
MaxInvocations == 3
MaxTrouble == 2

users == <<"u", "s", "e", "r", "s">>
logs == <<"l", "o", "g", "s">>
pairs == <<"p", "a", "i", "r", "s">>
ghost == <<"g", "h", "o", "s", "t">>
nameColumn == <<"n", "a", "m", "e">>
aColumn == <<"a">>
bColumn == <<"b">>
bogus == <<"b", "o", "g", "u", "s">>

\* the tables of the public schema: users has the primary key id, logs has
\* an id column and no primary key, pairs has the primary key (a, b)
Tables == {users, logs, pairs}
Schema ==
    [t \in Tables |->
        CASE t = users -> [columns |-> <<idColumn, nameColumn>>, primary |-> {idColumn}]
          [] t = logs -> [columns |-> <<idColumn, nameColumn>>, primary |-> {}]
          [] t = pairs -> [columns |-> <<aColumn, bColumn>>, primary |-> {aColumn, bColumn}]]

\* the value of a column that was given none
Null == "null"
Values == {"1", "2"}

\* a row of the table from the values of a payload, Null elsewhere
RowFrom(t, given) ==
    [c \in {Schema[t].columns[i] : i \in DOMAIN Schema[t].columns} |->
        IF c \in DOMAIN given THEN given[c] ELSE Null]

\* the rows the service finds in the tables when it starts
InitialRows ==
    [t \in Tables |->
        CASE t = users -> <<RowFrom(users, (idColumn :> "1") @@ (nameColumn :> "1"))>>
          [] t = logs -> <<RowFrom(logs, (idColumn :> "1") @@ (nameColumn :> "1")),
                           RowFrom(logs, (idColumn :> "1") @@ (nameColumn :> "2"))>>
          [] t = pairs -> <<RowFrom(pairs, (aColumn :> "1") @@ (bColumn :> "1")),
                            RowFrom(pairs, (aColumn :> "1") @@ (bColumn :> "2"))>>]
NoResult == [found |-> FALSE]

\* the processes that may run RunMigrations against the one database
Processes == {"p1", "p2"}
\* a transaction with nothing in it, and an invocation that has not failed
NoTx == [open |-> FALSE, effects |-> {}, markers |-> {}]
NoFailure == [failed |-> FALSE]

\* DB.GetTableColumns: the columns of information_schema.columns by ordinal
\* position, none for a table that does not exist
GetTableColumns(tableName) ==
    IF tableName \in Tables THEN Schema[tableName].columns ELSE <<>>

\* getPrimaryKeyColumn, what it can return: the cast to regclass fails for a
\* table that does not exist, id is the fallback without a primary key, and
\* Scan takes the first row of the answer, any column of the primary key
getPrimaryKeyColumn(tableName) ==
    IF tableName \notin Tables THEN {[err |-> TRUE, column |-> <<>>]}
    ELSE IF Schema[tableName].primary = {} THEN {[err |-> FALSE, column |-> idColumn]}
    ELSE {[err |-> FALSE, column |-> c] : c \in Schema[tableName].primary}

\* the positions of the rows WHERE column = value selects
Selected(table, column, value) == {i \in DOMAIN table : table[i][column] = value}

\* the primary key of the table admits the row next to the others
KeyAdmits(t, row, others) ==
    Schema[t].primary = {} \/
        /\ \A c \in Schema[t].primary : row[c] # Null
        /\ \A i \in DOMAIN others : \E c \in Schema[t].primary : others[i][c] # row[c]

\* no operation of the builders is under way
NoInputs == [values |-> <<>>]
NoFilters == [conditions |-> <<>>, args |-> <<>>]
NoPaging == [page |-> 0, pageSize |-> 0, offset |-> 0]
NoListing == [matching |-> 0, data |-> {}, page |-> 0, page_size |-> 0, total |-> 0,
              total_pages |-> 0]

VARIABLES
    rls_policies,   \* the metadata table: id -> row, or NoRow
    pg_policies,    \* the policy objects in force in the engine
    rowSecurity,    \* the tables with row-level security enabled
    nextID,         \* the id the next inserted row receives
    faults,         \* statements failed by the environment so far
    served,         \* requests begun so far
    pc,             \* where each handler task stands
    kind,           \* the handler a task runs: "create", "update", "delete"
    param,          \* the :id path parameter (a set: empty for create)
    req,            \* the parsed request body
    oldPolicy,      \* local oldPolicy of UpdateRLSPolicy
    policy,         \* local policy of each handler
    status,         \* the HTTP status answered
    stmts,          \* the statements a task has sent to the engine
    created,        \* history: ids whose CreateRLSPolicy answered 201, not deleted
    settled,        \* history: ids whose policy object was created and that no
                    \* request has begun to rewrite since
    outOfBand,      \* history: policy objects dropped by someone else
    qpc,            \* where the ExecuteQuery handler stands
    qreq,           \* its parsed request body
    user,           \* its c.Locals("user")
    isSelect,       \* what isSelectQuery answered for the statement
    rlsCheck,       \* the calls of CheckRLS made for the request
    sent,           \* the statements the request sent to the database
    qstatus,        \* the HTTP status answered
    built,          \* the operation that generated SQL last
    inputs,         \* what it was called with
    translated,     \* the conditions and arguments its filter translator returned
    paging,         \* the page, page size and offset GetTableRows runs with
    listing,        \* the rows that matched and the body GetTableRows answered
    rows,           \* the rows of every table
    rowsBefore,     \* history: the rows when the last row handler began
    result,         \* the row the last row handler answered
    writes,         \* the requests that changed a table so far
    schema_migrations, \* the versions recorded in the table schema_migrations
    applications,   \* history: the versions whose SQL was committed, in order
    mpc,            \* where each process stands in RunMigrations
    appliedMigrations, \* its local appliedMigrations
    position,       \* the index of its loop over availableMigrations
    tx,             \* the effects and markers its open transaction holds
    ran,            \* history: the versions whose SQL its invocation executed
    failure,        \* the version and step its invocation failed at
    invocations,    \* the invocations of RunMigrations so far
    trouble,        \* the failures the environment may still inject
    succeeded,      \* history: an invocation has returned nil
    statements,     \* the statements it generated, each with its arguments
    answer,         \* the HTTP status it answered, 0 when it is no handler
    rolesStep,      \* where the roles of a policy stand: "none", "stored", "loaded"
    rolesGiven,     \* the roles of the request
    rolesText,      \* the text stored in rls_policies.roles
    rolesParsed     \* the roles read back from that text

vars ==
    <<rls_policies, pg_policies, rowSecurity, nextID, faults, served, pc, kind,
      param, req, oldPolicy, policy, status, stmts, created, settled, outOfBand,
      qpc, qreq, user, isSelect, rlsCheck, sent, qstatus, built, inputs, translated,
      paging, listing, rows, rowsBefore, result, writes, schema_migrations, applications,
      mpc, appliedMigrations, position, tx, ran, failure, invocations, trouble,
      succeeded, statements, answer, rolesStep,
      rolesGiven, rolesText, rolesParsed>>

db == <<rls_policies, pg_policies, rowSecurity, nextID>>
locals == <<kind, param, req, oldPolicy, policy>>
history == <<created, settled, outOfBand>>
query == <<qpc, qreq, user, isSelect, rlsCheck, sent, qstatus>>
policies ==
    <<rls_policies, pg_policies, rowSecurity, nextID, faults, served, pc, kind,
      param, req, oldPolicy, policy, status, stmts, created, settled, outOfBand>>
\* what the policy handlers do not touch
generated == <<built, inputs, translated, paging, listing, statements, answer>>
roundTrip == <<rolesStep, rolesGiven, rolesText, rolesParsed>>
tables == <<rows, rowsBefore, result, writes>>
migrating ==
    <<schema_migrations, applications, mpc, appliedMigrations, position, tx, ran,
      failure, invocations, trouble, succeeded>>
elsewhere == <<query, generated, roundTrip, tables, migrating>>
\* what the custom-query endpoint does not touch
beyondQuery == <<policies, generated, roundTrip, tables, migrating>>
\* what the statement builders do not touch
beyondGenerated == <<policies, query, roundTrip, tables, migrating>>
\* what storing and loading roles does not touch
beyondRoundTrip == <<policies, query, generated, tables, migrating>>
\* what the row handlers do not touch
beyondTables == <<policies, query, roundTrip, translated, paging, listing, migrating>>
\* what RunMigrations does not touch
beyondMigrations == <<policies, query, generated, roundTrip, tables>>

\* the policies the service finds in the database when it starts: none, or one
\* that an earlier run created (row, policy object and row-level security)
Seeds == {<<>>, <<Body("p1", "orders", ReadAll)>>}

Init ==
    /\ \E seed \in Seeds :
        /\ rls_policies =
            [id \in PolicyIDs |-> IF id <= Len(seed) THEN RowOf(id, seed[id]) ELSE NoRow]
        /\ pg_policies =
            {PolicyObject(ScanPolicy(RowOf(id, seed[id]))) : id \in 1 .. Len(seed)}
        /\ rowSecurity = {seed[id].table_name : id \in 1 .. Len(seed)}
        /\ nextID = Len(seed) + 1
        /\ created = 1 .. Len(seed)
        /\ settled = 1 .. Len(seed)
    /\ outOfBand = {}
    /\ faults = 0
    /\ served = 0
    /\ pc = [p \in Handlers |-> "idle"]
    /\ kind = [p \in Handlers |-> "none"]
    /\ param = [p \in Handlers |-> {}]
    /\ req = [p \in Handlers |-> NoBody]
    /\ oldPolicy = [p \in Handlers |-> NoPolicy]
    /\ policy = [p \in Handlers |-> NoPolicy]
    /\ status = [p \in Handlers |-> 0]
    /\ stmts = [p \in Handlers |-> <<>>]
    /\ qpc = "idle"
    /\ qreq = NoRequest
    /\ user = NoUser
    /\ isSelect = FALSE
    /\ rlsCheck = <<>>
    /\ sent = <<>>
    /\ qstatus = 0
    /\ built = "none"
    /\ inputs = NoInputs
    /\ translated = NoFilters
    /\ paging = NoPaging
    /\ listing = NoListing
    /\ statements = <<>>
    /\ answer = 0
    /\ rolesStep = "none"
    /\ rolesGiven = <<>>
    /\ rolesText = <<>>
    /\ rolesParsed = <<>>
    /\ rows = InitialRows
    /\ rowsBefore = InitialRows
    /\ result = NoResult
    /\ writes = 0
    /\ schema_migrations = {}
    /\ applications = <<>>
    /\ mpc = [p \in Processes |-> "idle"]
    /\ appliedMigrations = [p \in Processes |-> {}]
    /\ position = [p \in Processes |-> 0]
    /\ tx = [p \in Processes |-> NoTx]
    /\ ran = [p \in Processes |-> <<>>]
    /\ failure = [p \in Processes |-> NoFailure]
    /\ invocations = 0
    /\ trouble = MaxTrouble
    /\ succeeded = FALSE

\* the environment may fail a statement while its budget lasts
FaultChoices == IF faults < MaxFaults THEN BOOLEAN ELSE {FALSE}
Charge(fault) == faults' = IF fault THEN faults + 1 ELSE faults

Goto(p, label) == pc' = [pc EXCEPT ![p] = label] /\ UNCHANGED status

\* the handler returns c.Status(code)
Respond(p, code) ==
    /\ pc' = [pc EXCEPT ![p] = "done"]
    /\ status' = [status EXCEPT ![p] = code]

Issue(p, stmt, on, ok) ==
    stmts' = [stmts EXCEPT ![p] = Append(@, [stmt |-> stmt, on |-> on, ok |-> ok])]

\* the tasks of CreateRLSPolicy that have not reached their INSERT
Creating ==
    {p \in Handlers : kind[p] = "create" /\ pc[p] \in {"c_table", "c_unique", "c_insert"}}

(***************************************************************************)
(* CreateRLSPolicy                                                         *)
(***************************************************************************)
\* request parsed and validated; an incomplete body is answered 400
CreateRLSPolicy(p, body) ==
    /\ pc[p] = "idle"
    /\ served < MaxRequests
    /\ nextID + Cardinality(Creating) <= MaxPolicies
    /\ served' = served + 1
    /\ kind' = [kind EXCEPT ![p] = "create"]
    /\ req' = [req EXCEPT ![p] = body]
    /\ IF body.name = "" \/ body.table_name = "" \/ body.action = ""
          \/ Len(body.roles) = 0 \/ body.definition = ""
       THEN Respond(p, StatusBadRequest)
       ELSE Goto(p, "c_table")
    /\ UNCHANGED <<db, faults, param, oldPolicy, policy, stmts, history, elsewhere>>

\* tableExists(ctx, database, req.TableName)
CreateCheckTable(p) ==
    /\ pc[p] = "c_table"
    /\ \E fault \in FaultChoices :
        /\ Charge(fault)
        /\ Issue(p, "SELECT tables", <<>>, ~fault)
        /\ IF fault THEN Respond(p, StatusInternalServerError)
           ELSE IF ~tableExists(req[p].table_name) THEN Respond(p, StatusBadRequest)
           ELSE Goto(p, "c_unique")
    /\ UNCHANGED <<db, served, locals, history, elsewhere>>

\* policyExists(ctx, database, req.Name, req.TableName, "")
CreateCheckUnique(p) ==
    /\ pc[p] = "c_unique"
    /\ \E fault \in FaultChoices :
        /\ Charge(fault)
        /\ Issue(p, "SELECT exists", <<>>, ~fault)
        /\ IF fault THEN Respond(p, StatusInternalServerError)
           ELSE IF policyExists(rls_policies, req[p].name, req[p].table_name, {})
           THEN Respond(p, StatusConflict)
           ELSE Goto(p, "c_insert")
    /\ UNCHANGED <<db, served, locals, history, elsewhere>>

\* INSERT INTO rls_policies (...) VALUES (...) RETURNING ...
CreateInsert(p) ==
    /\ pc[p] = "c_insert"
    /\ \E fault \in FaultChoices :
        LET row == RowOf(nextID, req[p])
            ok == /\ ~fault
                  /\ ActionCheck(row.action)
                  /\ UniqueNameTable(rls_policies, nextID, row.name, row.table_name)
        IN  /\ Charge(fault)
            /\ Issue(p, "INSERT", <<row.name, row.table_name>>, ok)
            /\ IF ok
               THEN /\ rls_policies' = [rls_policies EXCEPT ![nextID] = row]
                    /\ nextID' = nextID + 1
                    /\ policy' = [policy EXCEPT ![p] = ScanPolicy(row)]
                    /\ Goto(p, "c_enable")
               ELSE /\ Respond(p, StatusInternalServerError)
                    /\ UNCHANGED <<rls_policies, nextID, policy>>
    /\ UNCHANGED <<pg_policies, rowSecurity, served, kind, param, req, oldPolicy,
                   history, elsewhere>>

(***************************************************************************)
(* applyRLSPolicy, as called by CreateRLSPolicy (answering 201) and by     *)
(* UpdateRLSPolicy (answering 200): two statements, two steps.             *)
(***************************************************************************)
\* ALTER TABLE <table> ENABLE ROW LEVEL SECURITY
ApplyEnable(p, at, next) ==
    /\ pc[p] = at
    /\ \E fault \in FaultChoices :
        LET ok == ~fault /\ EnableAccepted(policy[p].table_name)
        IN  /\ Charge(fault)
            /\ Issue(p, "ALTER TABLE", <<policy[p].table_name>>, ok)
            /\ IF ok
               THEN /\ rowSecurity' = rowSecurity \cup {policy[p].table_name}
                    /\ Goto(p, next)
               ELSE /\ Respond(p, StatusInternalServerError)
                    /\ UNCHANGED rowSecurity
    /\ UNCHANGED <<rls_policies, pg_policies, nextID, served, locals, history, elsewhere>>

\* applyRLSPolicy's CREATE POLICY step with a compensation the code does not
\* have: when the statement fails, the metadata row is deleted again
ApplyCreateCompensating(p, at, code) ==
    /\ pc[p] = at
    /\ \E fault \in FaultChoices :
        LET ok == ~fault /\ CreateAccepted(pg_policies, policy[p])
        IN  /\ Charge(fault)
            /\ Issue(p, "CREATE POLICY", <<policy[p].name, policy[p].table_name>>, ok)
            /\ IF ok
               THEN /\ pg_policies' = pg_policies \cup {PolicyObject(policy[p])}
                    /\ Respond(p, code)
                    /\ settled' = settled \cup {policy[p].id}
                    /\ created' = IF kind[p] = "create"
                                  THEN created \cup {policy[p].id} ELSE created
                    /\ UNCHANGED rls_policies
               ELSE /\ Respond(p, StatusInternalServerError)
                    /\ rls_policies' = [rls_policies EXCEPT ![policy[p].id] = NoRow]
                    /\ UNCHANGED <<pg_policies, created, settled>>
    /\ UNCHANGED <<rowSecurity, nextID, served, locals, outOfBand, elsewhere>>

\* CREATE POLICY <name> ON <table> FOR <ACTION> TO <roles> USING (<definition>)
ApplyCreate(p, at, code) ==
    /\ pc[p] = at
    /\ \E fault \in FaultChoices :
        LET ok == ~fault /\ CreateAccepted(pg_policies, policy[p])
        IN  /\ Charge(fault)
            /\ Issue(p, "CREATE POLICY", <<policy[p].name, policy[p].table_name>>, ok)
            /\ IF ok
               THEN /\ pg_policies' = pg_policies \cup {PolicyObject(policy[p])}
                    /\ Respond(p, code)
                    /\ settled' = settled \cup {policy[p].id}
                    /\ created' = IF kind[p] = "create"
                                  THEN created \cup {policy[p].id} ELSE created
               ELSE /\ Respond(p, StatusInternalServerError)
                    /\ UNCHANGED <<pg_policies, created, settled>>
    /\ UNCHANGED <<rls_policies, rowSecurity, nextID, served, locals, outOfBand, elsewhere>>

CreateEnable(p) == ApplyEnable(p, "c_enable", "c_policy")
CreateApply(p) == ApplyCreate(p, "c_policy", StatusCreated)

(***************************************************************************)
(* UpdateRLSPolicy                                                         *)
(***************************************************************************)
\* request parsed; the body is not validated
\* UpdateRLSPolicy with the validation of required fields that
\* CreateRLSPolicy has
UpdateRLSPolicyValidating(p, id, body) ==
    /\ pc[p] = "idle"
    /\ served < MaxRequests
    /\ served' = served + 1
    /\ kind' = [kind EXCEPT ![p] = "update"]
    /\ param' = [param EXCEPT ![p] = {id}]
    /\ req' = [req EXCEPT ![p] = body]
    /\ IF body.name = "" \/ body.table_name = "" \/ body.action = ""
          \/ Len(body.roles) = 0 \/ body.definition = ""
       THEN Respond(p, StatusBadRequest)
       ELSE Goto(p, "u_get")
    /\ UNCHANGED <<db, faults, oldPolicy, policy, stmts, history, elsewhere>>

UpdateRLSPolicy(p, id, body) ==
    /\ pc[p] = "idle"
    /\ served < MaxRequests
    /\ served' = served + 1
    /\ kind' = [kind EXCEPT ![p] = "update"]
    /\ param' = [param EXCEPT ![p] = {id}]
    /\ req' = [req EXCEPT ![p] = body]
    /\ Goto(p, "u_get")
    /\ UNCHANGED <<db, faults, oldPolicy, policy, stmts, history, elsewhere>>

\* getPolicy(ctx, database, policyID, &oldPolicy), then the decision whether
\* the uniqueness check is needed
UpdateGet(p) ==
    /\ pc[p] = "u_get"
    /\ \E fault \in FaultChoices, id \in param[p] :
        /\ Charge(fault)
        /\ Issue(p, "SELECT policy", <<>>, ~fault)
        /\ IF fault
           THEN /\ Respond(p, StatusInternalServerError)
                /\ UNCHANGED oldPolicy
           ELSE IF rls_policies[id] = NoRow
           THEN /\ Respond(p, StatusNotFound)
                /\ UNCHANGED oldPolicy
           ELSE /\ oldPolicy' = [oldPolicy EXCEPT ![p] = ScanPolicy(rls_policies[id])]
                /\ IF req[p].name # rls_policies[id].name
                      \/ req[p].table_name # rls_policies[id].table_name
                   THEN Goto(p, "u_unique")
                   ELSE Goto(p, "u_update")
    /\ UNCHANGED <<db, served, kind, param, req, policy, history, elsewhere>>

\* policyExists(ctx, database, req.Name, req.TableName, policyID)
UpdateCheckUnique(p) ==
    /\ pc[p] = "u_unique"
    /\ \E fault \in FaultChoices :
        /\ Charge(fault)
        /\ Issue(p, "SELECT exists", <<>>, ~fault)
        /\ IF fault THEN Respond(p, StatusInternalServerError)
           ELSE IF policyExists(rls_policies, req[p].name, req[p].table_name, param[p])
           THEN Respond(p, StatusConflict)
           ELSE Goto(p, "u_update")
    /\ UNCHANGED <<db, served, locals, history, elsewhere>>

\* UPDATE rls_policies SET ... WHERE id = $7 RETURNING ...; Scan fails with
\* ErrNoRows when the row is gone
UpdateWrite(p) ==
    /\ pc[p] = "u_update"
    /\ \E fault \in FaultChoices, id \in param[p] :
        LET row == RowOf(id, req[p])
            ok == /\ ~fault
                  /\ rls_policies[id] # NoRow
                  /\ ActionCheck(row.action)
                  /\ UniqueNameTable(rls_policies, id, row.name, row.table_name)
        IN  /\ Charge(fault)
            /\ Issue(p, "UPDATE", <<row.name, row.table_name>>, ok)
            /\ IF ok
               THEN /\ rls_policies' = [rls_policies EXCEPT ![id] = row]
                    /\ policy' = [policy EXCEPT ![p] = ScanPolicy(row)]
                    /\ Goto(p, "u_drop")
                    /\ settled' = settled \ {id}
               ELSE /\ Respond(p, StatusInternalServerError)
                    /\ UNCHANGED <<rls_policies, policy, settled>>
    /\ UNCHANGED <<pg_policies, rowSecurity, nextID, served, kind, param, req,
                   oldPolicy, created, outOfBand, elsewhere>>

\* dropRLSPolicy(ctx, database, oldPolicy)
UpdateDrop(p) ==
    /\ pc[p] = "u_drop"
    /\ \E fault \in FaultChoices :
        LET target == DropTarget(oldPolicy[p], policy[p])
            ok == ~fault /\ DropAccepted(pg_policies, target[1], target[2])
        IN  /\ Charge(fault)
            /\ Issue(p, "DROP POLICY", target, ok)
            /\ IF ok
               THEN /\ pg_policies' = AfterDrop(pg_policies, target[1], target[2])
                    /\ Goto(p, "u_enable")
               ELSE /\ Respond(p, StatusInternalServerError)
                    /\ UNCHANGED pg_policies
    /\ UNCHANGED <<rls_policies, rowSecurity, nextID, served, locals, history, elsewhere>>

UpdateEnable(p) == ApplyEnable(p, "u_enable", "u_policy")
UpdateApply(p) == ApplyCreate(p, "u_policy", StatusOK)

(***************************************************************************)
(* DeleteRLSPolicy                                                         *)
(***************************************************************************)
DeleteRLSPolicy(p, id) ==
    /\ pc[p] = "idle"
    /\ served < MaxRequests
    /\ served' = served + 1
    /\ kind' = [kind EXCEPT ![p] = "delete"]
    /\ param' = [param EXCEPT ![p] = {id}]
    /\ Goto(p, "d_get")
    /\ UNCHANGED <<db, faults, req, oldPolicy, policy, stmts, history, elsewhere>>

\* getPolicy(ctx, database, policyID, &policy)
DeleteGet(p) ==
    /\ pc[p] = "d_get"
    /\ \E fault \in FaultChoices, id \in param[p] :
        /\ Charge(fault)
        /\ Issue(p, "SELECT policy", <<>>, ~fault)
        /\ IF fault
           THEN /\ Respond(p, StatusInternalServerError)
                /\ UNCHANGED policy
           ELSE IF rls_policies[id] = NoRow
           THEN /\ Respond(p, StatusNotFound)
                /\ UNCHANGED policy
           ELSE /\ policy' = [policy EXCEPT ![p] = ScanPolicy(rls_policies[id])]
                /\ Goto(p, "d_drop")
    /\ UNCHANGED <<db, served, kind, param, req, oldPolicy, history, elsewhere>>

\* dropRLSPolicy(ctx, database, policy)
DeleteDrop(p) ==
    /\ pc[p] = "d_drop"
    /\ \E fault \in FaultChoices :
        LET ok == ~fault
                  /\ DropAccepted(pg_policies, policy[p].name, policy[p].table_name)
        IN  /\ Charge(fault)
            /\ Issue(p, "DROP POLICY", <<policy[p].name, policy[p].table_name>>, ok)
            /\ IF ok
               THEN /\ pg_policies' =
                        AfterDrop(pg_policies, policy[p].name, policy[p].table_name)
                    /\ Goto(p, "d_delete")
                    /\ settled' = settled \ param[p]
               ELSE /\ Respond(p, StatusInternalServerError)
                    /\ UNCHANGED <<pg_policies, settled>>
    /\ UNCHANGED <<rls_policies, rowSecurity, nextID, served, locals, created,
                   outOfBand, elsewhere>>

\* DELETE FROM rls_policies WHERE id = $1
DeleteRow(p) ==
    /\ pc[p] = "d_delete"
    /\ \E fault \in FaultChoices, id \in param[p] :
        /\ Charge(fault)
        /\ Issue(p, "DELETE", <<>>, ~fault)
        /\ IF fault
           THEN /\ Respond(p, StatusInternalServerError)
                /\ UNCHANGED <<rls_policies, created>>
           ELSE /\ rls_policies' = [rls_policies EXCEPT ![id] = NoRow]
                /\ Respond(p, StatusNoContent)
                /\ created' = created \ {id}
    /\ UNCHANGED <<pg_policies, rowSecurity, nextID, served, locals, settled,
                   outOfBand, elsewhere>>

\* the response is written and the task ends; its locals are gone
Return(p) ==
    /\ pc[p] = "done"
    /\ pc' = [pc EXCEPT ![p] = "idle"]
    /\ kind' = [kind EXCEPT ![p] = "none"]
    /\ param' = [param EXCEPT ![p] = {}]
    /\ req' = [req EXCEPT ![p] = NoBody]
    /\ oldPolicy' = [oldPolicy EXCEPT ![p] = NoPolicy]
    /\ policy' = [policy EXCEPT ![p] = NoPolicy]
    /\ status' = [status EXCEPT ![p] = 0]
    /\ stmts' = [stmts EXCEPT ![p] = <<>>]
    /\ UNCHANGED <<db, faults, served, history, elsewhere>>

\* someone with access to the engine drops a policy object behind the
\* manager's back
OutOfBandDrop ==
    /\ \E o \in pg_policies :
        /\ pg_policies' = pg_policies \ {o}
        /\ outOfBand' = outOfBand \cup {<<o.policyname, o.tablename>>}
    /\ settled' = {id \in settled : \E o \in pg_policies' :
                        /\ rls_policies[id] # NoRow
                        /\ o.policyname = rls_policies[id].name
                        /\ o.tablename = rls_policies[id].table_name}
    /\ UNCHANGED <<rls_policies, rowSecurity, nextID, faults, served, pc, status,
                   locals, stmts, created, elsewhere>>

\* a request arrives for task p
Begin(p) ==
    \/ \E body \in Bodies : CreateRLSPolicy(p, body)
    \/ \E id \in PolicyIDs, body \in Bodies : UpdateRLSPolicy(p, id, body)
    \/ \E id \in PolicyIDs : DeleteRLSPolicy(p, id)

\* task p sends its next statement, or ends
Step(p) ==
    \/ CreateCheckTable(p) \/ CreateCheckUnique(p) \/ CreateInsert(p)
    \/ CreateEnable(p) \/ CreateApply(p)
    \/ UpdateGet(p) \/ UpdateCheckUnique(p) \/ UpdateWrite(p) \/ UpdateDrop(p)
    \/ UpdateEnable(p) \/ UpdateApply(p)
    \/ DeleteGet(p) \/ DeleteDrop(p) \/ DeleteRow(p)
    \/ Return(p)

Quiet == \A p \in Handlers : pc[p] = "idle"

\* the task a new request runs on: the tasks are interchangeable
Free(p) ==
    /\ \E q \in Handlers : pc[q] = "idle"
    /\ p = CHOOSE r \in Handlers : pc[r] = "idle"

\* every request on its own task, the tasks interleaved statement by statement
Next == \E p \in Handlers : (Free(p) /\ Begin(p)) \/ Step(p)
Spec == Init /\ [][Next]_vars

\* the requests served one at a time
NextSeq == \E p \in Handlers : (Quiet /\ Free(p) /\ Begin(p)) \/ Step(p)
SpecSeq == Init /\ [][NextSeq]_vars

\* the requests served one at a time, with policy objects dropped out of band
NextOutOfBand == NextSeq \/ OutOfBandDrop
SpecOutOfBand == Init /\ [][NextOutOfBand]_vars

(***************************************************************************)
(* ExecuteQuery                                                            *)
(***************************************************************************)
\* the request is parsed, validated and classified, and a statement that is
\* not a select passes the write gate: 400 for a body that does not parse or
\* has no statement, 403 when CheckRLS denies or fails
ExecuteQuery(body, principal) ==
    /\ qpc = "idle"
    /\ qreq' = body
    /\ user' = principal
    /\ sent' = <<>>
    /\ IF ~body.parsed \/ body.SQL = <<>>
       THEN /\ qpc' = "done"
            /\ qstatus' = StatusBadRequest
            /\ isSelect' = FALSE
            /\ rlsCheck' = <<>>
       ELSE /\ isSelect' = isSelectQuery(body.SQL)
            /\ IF ~isSelect'
               THEN LET r == CheckRLS(principal) IN
                    /\ rlsCheck' = <<[user |-> principal, allowed |-> r.allowed,
                                      err |-> r.err]>>
                    /\ IF r.err \/ ~r.allowed
                       THEN qpc' = "done" /\ qstatus' = StatusForbidden
                       ELSE qpc' = "q_run" /\ qstatus' = 0
               ELSE /\ rlsCheck' = <<>>
                    /\ qpc' = "q_run"
                    /\ qstatus' = 0
    /\ UNCHANGED beyondQuery

\* the statement goes to the database: a select through Query, anything else
\* through Exec; 500 when the database fails it
QueryRun ==
    /\ qpc = "q_run"
    /\ sent' = Append(sent, [via |-> IF isSelect THEN "Query" ELSE "Exec",
                             sql |-> qreq.SQL])
    /\ \E ok \in BOOLEAN :
        qstatus' = IF ok THEN StatusOK ELSE StatusInternalServerError
    /\ qpc' = "done"
    /\ UNCHANGED <<qreq, user, isSelect, rlsCheck, beyondQuery>>

\* the response is written and the handler is free again
QueryReturn ==
    /\ qpc = "done"
    /\ qpc' = "idle"
    /\ qreq' = NoRequest
    /\ user' = NoUser
    /\ isSelect' = FALSE
    /\ rlsCheck' = <<>>
    /\ sent' = <<>>
    /\ qstatus' = 0
    /\ UNCHANGED beyondQuery

\* the custom-query endpoint on its own
NextQuery ==
    \/ /\ qpc = "idle"
       /\ \E body \in QueryRequests, principal \in Users : ExecuteQuery(body, principal)
    \/ QueryRun
    \/ QueryReturn
SpecQuery == Init /\ [][NextQuery]_vars

(***************************************************************************)
(* The statement builders                                                  *)
(***************************************************************************)
Statement(pieces) == [sql |-> pieces, args |-> <<>>]

\* applyRLSPolicy: the CREATE POLICY is built once the ALTER TABLE went through
applyRLSPolicy(p) ==
    /\ built = "none"
    /\ built' = "applyRLSPolicy"
    /\ inputs' = [policy |-> p]
    /\ translated' = NoFilters
    /\ paging' = NoPaging
    /\ listing' = NoListing
    /\ \E ok \in BOOLEAN :
        statements' = IF ok THEN <<Statement(enableQuery(p)), Statement(createQuery(p))>>
                      ELSE <<Statement(enableQuery(p))>>
    /\ answer' = 0
    /\ UNCHANGED beyondGenerated

dropRLSPolicy(p) ==
    /\ built = "none"
    /\ built' = "dropRLSPolicy"
    /\ inputs' = [policy |-> p]
    /\ translated' = NoFilters
    /\ paging' = NoPaging
    /\ listing' = NoListing
    /\ statements' = <<Statement(dropQuery(p))>>
    /\ answer' = 0
    /\ UNCHANGED beyondGenerated

\* QueryParamsMiddleware parses the values of the request, and Find builds
\* the listing from the result, its loop taking the filters in some order
Find(qb, values) ==
    /\ built = "none"
    /\ built' = "Find"
    /\ \E filters \in Orderings(ParseQueryParams(values).Filters) :
        LET qp == [ParseQueryParams(values) EXCEPT !.Filters = filters] IN
        /\ inputs' = [qb |-> qb, values |-> values, qp |-> qp]
        /\ translated' = [conditions |-> BuildWhereClause(qp).conditions,
                          args |-> BuildWhereClause(qp).args]
        /\ statements' = <<FindQuery(qb, qp)>>
    /\ paging' = NoPaging
    /\ listing' = NoListing
    /\ answer' = 0
    /\ UNCHANGED beyondGenerated

Count(qb, values) ==
    /\ built = "none"
    /\ built' = "Count"
    /\ \E filters \in Orderings(ParseQueryParams(values).Filters) :
        LET qp == [ParseQueryParams(values) EXCEPT !.Filters = filters] IN
        /\ inputs' = [qb |-> qb, values |-> values, qp |-> qp]
        /\ translated' = [conditions |-> BuildWhereClause(qp).conditions,
                          args |-> BuildWhereClause(qp).args]
        /\ statements' = <<CountQuery(qb, qp)>>
    /\ paging' = NoPaging
    /\ listing' = NoListing
    /\ answer' = 0
    /\ UNCHANGED beyondGenerated

\* GetTableRows: 403 when CheckRLS denies, 500 when the listing or the count
\* fails (the database rejects the listing, or the environment fails either
\* statement), the count being sent after the listing; else the page of rows
GetTableRows(tableName, queryArgs, principal) ==
    /\ built = "none"
    /\ built' = "GetTableRows"
    /\ inputs' = [tableName |-> tableName, queryArgs |-> queryArgs, user |-> principal]
    /\ LET r == CheckRLS(principal) IN
       IF r.err \/ ~r.allowed
       THEN /\ statements' = <<>>
            /\ answer' = StatusForbidden
            /\ translated' = NoFilters
            /\ paging' = NoPaging
            /\ listing' = NoListing
       ELSE \E outcome \in {"listing fails", "count fails", "ok"}, matching \in Matching :
            /\ Rejected(queryArgs) => outcome = "listing fails"
            /\ outcome # "ok" => matching = 0
            /\ translated' = [conditions |-> buildQueryFilters(queryArgs, 1).wheres,
                              args |-> buildQueryFilters(queryArgs, 1).params]
            /\ paging' = [page |-> PageOf(queryArgs), pageSize |-> PageSizeOf(queryArgs),
                          offset |-> OffsetOf(queryArgs)]
            /\ statements' =
                 IF outcome = "listing fails"
                 THEN <<RowsQuery(tableName, queryArgs)>>
                 ELSE <<RowsQuery(tableName, queryArgs),
                        RowsCountQuery(tableName, queryArgs)>>
            /\ answer' = IF outcome = "ok" THEN StatusOK ELSE StatusInternalServerError
            /\ listing' = IF outcome = "ok" THEN RowsAnswer(queryArgs, matching)
                          ELSE NoListing
    /\ UNCHANGED beyondGenerated

\* the operation has returned
Done ==
    /\ built # "none"
    /\ built' = "none"
    /\ inputs' = NoInputs
    /\ translated' = NoFilters
    /\ paging' = NoPaging
    /\ listing' = NoListing
    /\ statements' = <<>>
    /\ answer' = 0
    /\ UNCHANGED beyondGenerated

\* the statement builders on their own
NextSql ==
    \/ built = "none" /\ \E p \in TextPolicies : applyRLSPolicy(p)
    \/ built = "none" /\ \E p \in TextPolicies : dropRLSPolicy(p)
    \/ built = "none" /\ \E qb \in QueryBuilders, values \in FindValues : Find(qb, values)
    \/ built = "none" /\ \E qb \in QueryBuilders, values \in FindValues : Count(qb, values)
    \/ built = "none"
        /\ \E t \in TableNames, queryArgs \in RowsValues,
              principal \in Users :
                GetTableRows(t, queryArgs, principal)
    \/ Done
SpecSql == Init /\ [][NextSql]_vars

(***************************************************************************)
(* The roles of a policy, stored as text and read back                     *)
(***************************************************************************)
\* the most roles of one policy
MaxRoles == 2

\* the role names submitted: plain ones, and ones that hold a comma, a blank,
\* a quote or a bracket, or nothing
RoleNames ==
    { Admin, Editor, <<"a", ",", "b">>, <<" ", "a">>, <<"a", " ", "b">>,
      <<"a", Quote>>, <<"[", "a", "]">>, <<>> }

\* CreateRLSPolicy and UpdateRLSPolicy write rolesArrayToJson(req.Roles) into
\* rls_policies.roles
StoreRoles(given) ==
    /\ rolesStep' = "stored"
    /\ rolesGiven' = given
    /\ rolesText' = rolesArrayToJson(given)
    /\ rolesParsed' = <<>>
    /\ UNCHANGED beyondRoundTrip

\* every reader of rls_policies (the RETURNING of the write, getPolicy, the
\* listing) takes the roles from parseRoles
LoadRoles ==
    /\ rolesStep = "stored"
    /\ rolesStep' = "loaded"
    /\ rolesParsed' = parseRoles(rolesText)
    /\ UNCHANGED <<rolesGiven, rolesText, beyondRoundTrip>>

\* the request has returned
ForgetRoles ==
    /\ rolesStep = "loaded"
    /\ rolesStep' = "none"
    /\ rolesGiven' = <<>>
    /\ rolesText' = <<>>
    /\ rolesParsed' = <<>>
    /\ UNCHANGED beyondRoundTrip

\* roles stored and read back, on their own
NextRoles ==
    \/ rolesStep = "none" /\ \E given \in Lists(RoleNames, MaxRoles) : StoreRoles(given)
    \/ LoadRoles
    \/ ForgetRoles
SpecRoles == Init /\ [][NextRoles]_vars

(***************************************************************************)
(* The row handlers: one row read, inserted, updated or deleted            *)
(***************************************************************************)
\* a map of a JSON payload: a function from its keys to their values
EmptyMap == <<>>
Entry(k, v) == k :> v

\* the payloads submitted: nothing, unknown keys alone and next to columns,
\* columns of each table, keys that collide with a row and keys that do not
Payloads ==
    {EmptyMap,
     Entry(bogus, "1"),
     Entry(nameColumn, "2"),
     Entry(idColumn, "2") @@ Entry(nameColumn, "1"),
     Entry(idColumn, "2") @@ Entry(bogus, "1"),
     Entry(idColumn, "1"),
     Entry(aColumn, "1") @@ Entry(bColumn, "1"),
     Entry(aColumn, "2") @@ Entry(bColumn, "1") @@ Entry(bogus, "1"),
     Entry(bColumn, "2")}

\* the tables and the ids asked for, one of each unknown
AskedTables == Tables \cup {ghost}
AskedIds == Values \cup {"999"}

\* pgxRowToJSON that never answers pgx.ErrNoRows
pgxRowToJSONNoRow(returned) ==
    IF returned = {} THEN {[err |-> FALSE, row |-> NoResult]}
    ELSE {[err |-> FALSE, row |-> [found |-> TRUE, values |-> r]] : r \in returned}

\* pgxRowToJSON: pgx.ErrNoRows when the statement returned no row, else the
\* first row it returned
pgxRowToJSON(returned) ==
    IF returned = {} THEN {[err |-> TRUE, row |-> NoResult]}
    ELSE {[err |-> FALSE, row |-> [found |-> TRUE, values |-> r]] : r \in returned}

\* the changes submitted to UpdateTableRow
Changes ==
    {EmptyMap,
     Entry(bogus, "1"),
     Entry(nameColumn, "2"),
     Entry(idColumn, "2") @@ Entry(nameColumn, "1"),
     Entry(bColumn, "2")}

\* the statement changed the table: one more write, while writes are left
Wrote(table, tableName) ==
    /\ rows' = [rows EXCEPT ![tableName] = table]
    /\ IF table = rows[tableName] THEN writes' = writes
       ELSE writes < MaxWrites /\ writes' = writes + 1

\* the handler is refused by CheckRLS
Refused(principal) == CheckRLS(principal).err \/ ~CheckRLS(principal).allowed

\* a handler that leaves the tables alone and answers without a row
Answer(code, sent2) ==
    /\ statements' = sent2
    /\ answer' = code
    /\ rows' = rows
    /\ result' = NoResult
    /\ writes' = writes

\* "SELECT * FROM <table> WHERE <key> = $1"
selectRowQuery(tableName, key, idParam) ==
    [sql |-> <<Lit("SELECT * FROM "), Ident(Sanitize(tableName), tableName),
               Lit(" WHERE "), Ident(Sanitize(key), key), Lit(" = "), Placeholder(1)>>,
     args |-> <<idParam>>]

\* insertRowQuery with the arguments in the reverse order of the columns
insertRowQueryReversed(tableName, columnNames, data) ==
    [sql |-> <<Lit("INSERT INTO "), Ident(Sanitize(tableName), tableName), Lit(" (")>>
             \o JoinPieces([i \in DOMAIN columnNames |->
                               <<Ident(Sanitize(columnNames[i]), columnNames[i])>>], ", ")
             \o <<Lit(") VALUES (")>>
             \o JoinPieces([i \in DOMAIN columnNames |-> <<Placeholder(i)>>], ", ")
             \o <<Lit(") RETURNING *")>>,
     args |-> [i \in DOMAIN columnNames |->
                 data[columnNames[Len(columnNames) + 1 - i]]]]

\* "INSERT INTO <table> (<columns>) VALUES (<placeholders>) RETURNING *"
insertRowQuery(tableName, columnNames, data) ==
    [sql |-> <<Lit("INSERT INTO "), Ident(Sanitize(tableName), tableName), Lit(" (")>>
             \o JoinPieces([i \in DOMAIN columnNames |->
                               <<Ident(Sanitize(columnNames[i]), columnNames[i])>>], ", ")
             \o <<Lit(") VALUES (")>>
             \o JoinPieces([i \in DOMAIN columnNames |-> <<Placeholder(i)>>], ", ")
             \o <<Lit(") RETURNING *")>>,
     args |-> [i \in DOMAIN columnNames |-> data[columnNames[i]]]]

\* "UPDATE <table> SET <column = $i, ...> WHERE <key> = $n RETURNING *"
updateRowQuery(tableName, key, idParam, columnNames, data) ==
    [sql |-> <<Lit("UPDATE "), Ident(Sanitize(tableName), tableName), Lit(" SET ")>>
             \o JoinPieces([i \in DOMAIN columnNames |->
                               <<Ident(Sanitize(columnNames[i]), columnNames[i]),
                                 Lit(" = "), Placeholder(i)>>], ", ")
             \o <<Lit(" WHERE "), Ident(Sanitize(key), key), Lit(" = "),
                  Placeholder(Len(columnNames) + 1), Lit(" RETURNING *")>>,
     args |-> [i \in DOMAIN columnNames |-> data[columnNames[i]]] \o <<idParam>>]

\* "DELETE FROM <table> WHERE <key> = $1 RETURNING *"
deleteRowQuery(tableName, key, idParam) ==
    [sql |-> <<Lit("DELETE FROM "), Ident(Sanitize(tableName), tableName),
               Lit(" WHERE "), Ident(Sanitize(key), key), Lit(" = "), Placeholder(1),
               Lit(" RETURNING *")>>,
     args |-> <<idParam>>]

\* the table has the column
HasColumn(tableName, column) ==
    \E i \in DOMAIN Schema[tableName].columns : Schema[tableName].columns[i] = column

\* the handler begins: what it was asked, and the tables as it finds them
Asked(name, tableName, idParam, data, principal) ==
    /\ built = "none"
    /\ built' = name
    /\ inputs' = [tableName |-> tableName, id |-> idParam, data |-> data,
                  user |-> principal]
    /\ rowsBefore' = rows
    /\ UNCHANGED beyondTables

\* GetTableRowById
GetTableRowById(tableName, idParam, principal) ==
    /\ Asked("GetTableRowById", tableName, idParam, EmptyMap, principal)
    /\ IF Refused(principal) THEN Answer(StatusForbidden, <<>>)
       ELSE \E key \in getPrimaryKeyColumn(tableName) :
            IF key.err THEN Answer(StatusInternalServerError, <<>>)
            ELSE LET stmt == selectRowQuery(tableName, key.column, idParam) IN
                 IF ~HasColumn(tableName, key.column)
                 THEN Answer(StatusInternalServerError, <<stmt>>)
                 ELSE LET at == Selected(rows[tableName], key.column, idParam) IN
                      \E read \in pgxRowToJSON({rows[tableName][i] : i \in at}) :
                         /\ statements' = <<stmt>>
                         /\ Wrote(rows[tableName], tableName)
                         /\ result' = read.row
                         /\ answer' = IF read.err THEN StatusNotFound ELSE StatusOK

\* CreateTableRow: the columns of the table that the payload names are
\* inserted; 400 when it names none
CreateTableRow(tableName, data, principal) ==
    /\ Asked("CreateTableRow", tableName, "", data, principal)
    /\ tableName \in Tables => Len(rows[tableName]) < MaxRows
    /\ IF Refused(principal) THEN Answer(StatusForbidden, <<>>)
       ELSE LET columns == GetTableColumns(tableName)
                columnNames == SelectSeq(columns, LAMBDA c : c \in DOMAIN data)
                stmt == insertRowQuery(tableName, columnNames, data)
            IN  IF Len(columnNames) = 0 THEN Answer(StatusBadRequest, <<>>)
                ELSE LET row == RowFrom(tableName, data) IN
                     IF ~KeyAdmits(tableName, row, rows[tableName])
                     THEN Answer(StatusInternalServerError, <<stmt>>)
                     ELSE /\ statements' = <<stmt>>
                          /\ Wrote(Append(rows[tableName], row), tableName)
                          /\ result' = [found |-> TRUE, values |-> row]
                          /\ answer' = StatusCreated

\* the rows of the table with the payload written over the selected ones
Written(tableName, at, data) ==
    [i \in DOMAIN rows[tableName] |->
        IF i \in at
        THEN [c \in DOMAIN rows[tableName][i] |->
                IF c \in DOMAIN data THEN data[c] ELSE rows[tableName][i][c]]
        ELSE rows[tableName][i]]

\* the primary key holds over the rows
KeyHolds(tableName, table) ==
    \/ Schema[tableName].primary = {}
    \/ /\ \A i \in DOMAIN table : \A c \in Schema[tableName].primary : table[i][c] # Null
       /\ \A i, j \in DOMAIN table :
            i # j => \E c \in Schema[tableName].primary : table[i][c] # table[j][c]

\* UpdateTableRow: every key of the payload is set, in the order the map
\* yields them; 400 for an empty payload
UpdateTableRow(tableName, idParam, data, principal) ==
    /\ Asked("UpdateTableRow", tableName, idParam, data, principal)
    /\ IF Refused(principal) THEN Answer(StatusForbidden, <<>>)
       ELSE \E key \in getPrimaryKeyColumn(tableName), columnNames \in Orderings(DOMAIN data) :
            IF key.err THEN Answer(StatusInternalServerError, <<>>)
            ELSE IF Len(columnNames) = 0 THEN Answer(StatusBadRequest, <<>>)
            ELSE LET stmt == updateRowQuery(tableName, key.column, idParam, columnNames, data)
                     at == Selected(rows[tableName], key.column, idParam)
                     written == Written(tableName, at, data)
                 IN  IF \/ ~HasColumn(tableName, key.column)
                        \/ \E c \in DOMAIN data : ~HasColumn(tableName, c)
                        \/ ~KeyHolds(tableName, written)
                     THEN Answer(StatusInternalServerError, <<stmt>>)
                     ELSE \E read \in pgxRowToJSON({written[i] : i \in at}) :
                            /\ statements' = <<stmt>>
                            /\ Wrote(written, tableName)
                            /\ result' = read.row
                            /\ answer' = IF read.err THEN StatusNotFound ELSE StatusOK

\* DeleteTableRow
DeleteTableRow(tableName, idParam, principal) ==
    /\ Asked("DeleteTableRow", tableName, idParam, EmptyMap, principal)
    /\ IF Refused(principal) THEN Answer(StatusForbidden, <<>>)
       ELSE \E key \in getPrimaryKeyColumn(tableName) :
            IF key.err THEN Answer(StatusInternalServerError, <<>>)
            ELSE LET stmt == deleteRowQuery(tableName, key.column, idParam) IN
                 IF ~HasColumn(tableName, key.column)
                 THEN Answer(StatusInternalServerError, <<stmt>>)
                 ELSE LET at == Selected(rows[tableName], key.column, idParam) IN
                      \E read \in pgxRowToJSON({rows[tableName][i] : i \in at}) :
                         /\ statements' = <<stmt>>
                         /\ Wrote(SelectSeq(rows[tableName],
                                            LAMBDA r : r[key.column] # idParam), tableName)
                         /\ result' = read.row
                         /\ answer' = IF read.err THEN StatusNotFound ELSE StatusOK

\* the row handler has returned
RowDone ==
    /\ built \in {"GetTableRowById", "CreateTableRow", "UpdateTableRow", "DeleteTableRow"}
    /\ built' = "none"
    /\ inputs' = NoInputs
    /\ statements' = <<>>
    /\ answer' = 0
    /\ result' = NoResult
    /\ rowsBefore' = rows
    /\ UNCHANGED <<rows, writes, beyondTables>>

\* the row handlers on their own, one request at a time
NextRows ==
    \/ built = "none"
        /\ \E t \in AskedTables, i \in AskedIds, principal \in Users :
            GetTableRowById(t, i, principal)
    \/ built = "none"
        /\ \E t \in AskedTables, data \in Payloads, principal \in Users :
            CreateTableRow(t, data, principal)
    \/ built = "none"
        /\ \E t \in AskedTables, i \in AskedIds, data \in Changes, principal \in Users :
            UpdateTableRow(t, i, data, principal)
    \/ built = "none"
        /\ \E t \in AskedTables, i \in AskedIds, principal \in Users :
            DeleteTableRow(t, i, principal)
    \/ RowDone
SpecRows == Init /\ [][NextRows]_vars

(***************************************************************************)
(* RunMigrations: the pending migrations, each in a transaction of its own *)
(***************************************************************************)
\* the entries of the embedded directory migrations: the initial schema,
\* whose SQL inserts its own version into schema_migrations, two later
\* migrations that leave the recording to RunMigrations, and a file that is
\* no migration
v001 == <<"0", "0", "1">>
v002 == <<"0", "0", "2">>
v010 == <<"0", "1", "0">>
migrationsFS ==
    {[name |-> v010, sqlFile |-> TRUE, inserts |-> FALSE],
     [name |-> v001, sqlFile |-> TRUE, inserts |-> TRUE],
     [name |-> <<"R">>, sqlFile |-> FALSE, inserts |-> FALSE],
     [name |-> v002, sqlFile |-> TRUE, inserts |-> FALSE]}

\* the place of a character in the order of characters
Rank(c) == IF \E i \in DOMAIN Digits : Digits[i] = c
           THEN CHOOSE i \in DOMAIN Digits : Digits[i] = c
           ELSE Len(Digits) + 1

RECURSIVE Less(_, _)
\* a < b on strings
Less(a, b) ==
    IF b = <<>> THEN FALSE
    ELSE IF a = <<>> THEN TRUE
    ELSE IF Head(a) # Head(b) THEN Rank(Head(a)) < Rank(Head(b))
    ELSE Less(Tail(a), Tail(b))

\* getAvailableMigrations: the .sql entries as migrations, sorted by version
getAvailableMigrations ==
    LET found == {[Version |-> e.name, inserts |-> e.inserts] :
                     e \in {f \in migrationsFS : f.sqlFile}}
    IN  CHOOSE l \in Orderings(found) :
            \A i, j \in DOMAIN l : i < j => Less(l[i].Version, l[j].Version)

\* contains that finds nothing
containsNothing(slice, item) == FALSE

\* contains
contains(slice, item) == item \in slice

\* the migration the loop of process p stands at
Current(p) == getAvailableMigrations[position[p]]

\* the invocation of p fails at a step: the error is returned
Fails(p, version, step) ==
    /\ mpc' = [mpc EXCEPT ![p] = "failed"]
    /\ failure' = [failure EXCEPT ![p] =
                      [failed |-> TRUE, version |-> version, step |-> step]]

\* the environment makes a statement fail
Troubled == trouble > 0 /\ trouble' = trouble - 1

\* tx.Rollback that keeps what the transaction did to the schema
RollbackKeepingEffects(p) ==
    /\ tx' = [tx EXCEPT ![p] = NoTx]
    /\ applications' = applications \o
          [i \in 1 .. Cardinality(tx[p].effects) |-> CHOOSE v \in tx[p].effects : TRUE]

\* tx.Rollback: nothing of the transaction persists
Rollback(p) ==
    /\ tx' = [tx EXCEPT ![p] = NoTx]
    /\ applications' = applications

\* schema_migrations without its primary key: any version can be inserted
MarkerFreeAlways(p, version) == TRUE

\* version TEXT PRIMARY KEY: the row can be inserted when no committed row
\* and no row of another open transaction has the version
MarkerFree(p, version) ==
    /\ version \notin schema_migrations
    /\ \A q \in Processes \ {p} : version \notin tx[q].markers

\* the insert waits for the transaction that holds a row of the version
MarkerHeld(p, version) ==
    \E q \in Processes \ {p} : version \in tx[q].markers

\* RunMigrations is called
Invoke(p) ==
    /\ mpc[p] = "idle"
    /\ invocations < MaxInvocations
    /\ invocations' = invocations + 1
    /\ mpc' = [mpc EXCEPT ![p] = "create"]
    /\ UNCHANGED <<schema_migrations, applications, appliedMigrations, position, tx,
                   ran, failure, trouble, succeeded, beyondMigrations>>

\* CREATE TABLE IF NOT EXISTS schema_migrations
CreateMigrationsTable(p) ==
    /\ mpc[p] = "create"
    /\ \/ /\ mpc' = [mpc EXCEPT ![p] = "read"]
          /\ UNCHANGED <<failure, trouble>>
       \/ Troubled /\ Fails(p, <<>>, "create")
    /\ UNCHANGED <<schema_migrations, applications, appliedMigrations, position, tx,
                   ran, invocations, succeeded, beyondMigrations>>

\* getAppliedMigrations: the versions recorded now
getAppliedMigrations(p) ==
    /\ mpc[p] = "read"
    /\ \/ /\ mpc' = [mpc EXCEPT ![p] = "loop"]
          /\ appliedMigrations' = [appliedMigrations EXCEPT ![p] = schema_migrations]
          /\ position' = [position EXCEPT ![p] = 1]
          /\ UNCHANGED <<failure, trouble>>
       \/ /\ Troubled /\ Fails(p, <<>>, "read")
          /\ UNCHANGED <<appliedMigrations, position>>
    /\ UNCHANGED <<schema_migrations, applications, tx, ran, invocations, succeeded,
                   beyondMigrations>>

\* the loop is over: return nil
Finish(p) ==
    /\ mpc[p] = "loop"
    /\ position[p] > Len(getAvailableMigrations)
    /\ mpc' = [mpc EXCEPT ![p] = "returned"]
    /\ UNCHANGED <<schema_migrations, applications, appliedMigrations, position, tx,
                   ran, failure, invocations, trouble, succeeded, beyondMigrations>>

\* skip if already applied
Skip(p) ==
    /\ mpc[p] = "loop"
    /\ position[p] <= Len(getAvailableMigrations)
    /\ contains(appliedMigrations[p], Current(p).Version)
    /\ position' = [position EXCEPT ![p] = @ + 1]
    /\ UNCHANGED <<schema_migrations, applications, mpc, appliedMigrations, tx, ran,
                   failure, invocations, trouble, succeeded, beyondMigrations>>

\* db.Begin
BeginTx(p) ==
    /\ mpc[p] = "loop"
    /\ position[p] <= Len(getAvailableMigrations)
    /\ ~contains(appliedMigrations[p], Current(p).Version)
    /\ \/ /\ mpc' = [mpc EXCEPT ![p] = "begun"]
          /\ tx' = [tx EXCEPT ![p] = [open |-> TRUE, effects |-> {}, markers |-> {}]]
          /\ UNCHANGED <<failure, trouble>>
       \/ /\ Troubled /\ Fails(p, Current(p).Version, "begin")
          /\ tx' = tx
    /\ UNCHANGED <<schema_migrations, applications, appliedMigrations, position, ran,
                   invocations, succeeded, beyondMigrations>>

\* tx.Exec(migration.SQL); the SQL of the initial schema inserts its version
ExecuteMigration(p) ==
    LET migration == Current(p) IN
    /\ mpc[p] = "begun"
    /\ migration.inserts => ~MarkerHeld(p, migration.Version)
    /\ ran' = [ran EXCEPT ![p] = Append(@, migration.Version)]
    /\ \/ /\ ~migration.inserts \/ MarkerFree(p, migration.Version)
          /\ tx' = [tx EXCEPT ![p].effects = @ \cup {migration.Version},
                              ![p].markers = IF migration.inserts
                                             THEN @ \cup {migration.Version} ELSE @]
          /\ mpc' = [mpc EXCEPT ![p] = IF migration.inserts THEN "recorded" ELSE "executed"]
          /\ UNCHANGED <<failure, trouble, applications>>
       \/ /\ migration.inserts /\ ~MarkerFree(p, migration.Version)
          /\ Rollback(p)
          /\ Fails(p, migration.Version, "execute")
          /\ trouble' = trouble
       \/ /\ Troubled
          /\ Rollback(p)
          /\ Fails(p, migration.Version, "execute")
    /\ UNCHANGED <<schema_migrations, appliedMigrations, position, invocations,
                   succeeded, beyondMigrations>>

\* INSERT INTO schema_migrations (version) VALUES ($1)
RecordMigration(p) ==
    LET migration == Current(p) IN
    /\ mpc[p] = "executed"
    /\ ~MarkerHeld(p, migration.Version)
    /\ \/ /\ MarkerFree(p, migration.Version)
          /\ tx' = [tx EXCEPT ![p].markers = @ \cup {migration.Version}]
          /\ mpc' = [mpc EXCEPT ![p] = "recorded"]
          /\ UNCHANGED <<failure, trouble, applications>>
       \/ /\ ~MarkerFree(p, migration.Version)
          /\ Rollback(p)
          /\ Fails(p, migration.Version, "record")
          /\ trouble' = trouble
       \/ /\ Troubled
          /\ Rollback(p)
          /\ Fails(p, migration.Version, "record")
    /\ UNCHANGED <<schema_migrations, appliedMigrations, position, ran, invocations,
                   succeeded, beyondMigrations>>

\* tx.Commit: what the transaction did and recorded persists together
CommitMigration(p) ==
    /\ mpc[p] = "recorded"
    /\ \/ /\ schema_migrations' = schema_migrations \cup tx[p].markers
          /\ applications' = Append(applications, Current(p).Version)
          /\ tx' = [tx EXCEPT ![p] = NoTx]
          /\ position' = [position EXCEPT ![p] = @ + 1]
          /\ mpc' = [mpc EXCEPT ![p] = "loop"]
          /\ UNCHANGED <<failure, trouble>>
       \/ /\ Troubled
          /\ tx' = [tx EXCEPT ![p] = NoTx]
          /\ Fails(p, Current(p).Version, "commit")
          /\ UNCHANGED <<schema_migrations, applications, position>>
    /\ UNCHANGED <<appliedMigrations, ran, invocations, succeeded, beyondMigrations>>

\* RunMigrations has returned, nil or its error
ReturnMigrations(p) ==
    /\ mpc[p] \in {"returned", "failed"}
    /\ succeeded' = (succeeded \/ mpc[p] = "returned")
    /\ mpc' = [mpc EXCEPT ![p] = "idle"]
    /\ appliedMigrations' = [appliedMigrations EXCEPT ![p] = {}]
    /\ position' = [position EXCEPT ![p] = 0]
    /\ ran' = [ran EXCEPT ![p] = <<>>]
    /\ failure' = [failure EXCEPT ![p] = NoFailure]
    /\ UNCHANGED <<schema_migrations, applications, tx, invocations, trouble,
                   beyondMigrations>>

StepMigrations(p) ==
    \/ CreateMigrationsTable(p)
    \/ getAppliedMigrations(p)
    \/ Finish(p)
    \/ Skip(p)
    \/ BeginTx(p)
    \/ ExecuteMigration(p)
    \/ RecordMigration(p)
    \/ CommitMigration(p)
    \/ ReturnMigrations(p)

\* no process is inside RunMigrations
NoneMigrating == \A p \in Processes : mpc[p] = "idle"

\* RunMigrations invoked by one process after another
NextMigrations == \E p \in Processes : (NoneMigrating /\ Invoke(p)) \/ StepMigrations(p)
SpecMigrations == Init /\ [][NextMigrations]_vars

\* RunMigrations invoked by processes that start side by side
NextConcurrentMigrations == \E p \in Processes : Invoke(p) \/ StepMigrations(p)
SpecConcurrentMigrations == Init /\ [][NextConcurrentMigrations]_vars

(***************************************************************************)
(* Properties of the policy lifecycle manager.                             *)
(***************************************************************************)
\* o is an enforcement object for the record: on its table, with its name,
\* action, roles and definition
Mirrors(o, row) ==
    /\ o.policyname = row.name
    /\ o.tablename = row.table_name
    /\ o.cmd = ToUpper(row.action)
    /\ rolesArrayToJson(o.roles) = row.roles
    /\ o.qual = row.definition

\* the objects the engine holds under a name on a table
ObjectsAt(name, tableName) ==
    {o \in pg_policies : o.policyname = name /\ o.tablename = tableName}

\* the engine holds exactly one enforcement object for the record
ExactlyOneObject(row) ==
    /\ Cardinality(ObjectsAt(row.name, row.table_name)) = 1
    /\ \A o \in ObjectsAt(row.name, row.table_name) : Mirrors(o, row)

Persisted(id) == rls_policies[id] # NoRow

\* the statements of kind stmt in the log of task p, as indices
Sent(p, stmt) == {i \in 1 .. Len(stmts[p]) : stmts[p][i].stmt = stmt}

Finished(p, k) == kind[p] = k /\ pc[p] = "done"

\* task p takes a step from label `at` in which the engine did not fail for
\* outside reasons
StepsFrom(p, at) == pc[p] = at /\ pc'[p] # at /\ faults' = faults

\* C1 as stated: from the moment CreateRLSPolicy has succeeded for a record until
\* the record is deleted, in every state (the states between the statements of an
\* update or delete included) the engine holds exactly one enforcement object for
\* the record.
C1_OneObjectAtAllTimes ==
    \A id \in created : Persisted(id) => ExactlyOneObject(rls_policies[id])

\* What holds in place of C1: with the requests served one at a time, a record
\* whose policy object was created, and that no update or delete has begun to
\* rewrite since, has exactly one enforcement object, with its name, action,
\* roles and definition, on its table.
OneObjectWhenSettled ==
    \A id \in settled : Persisted(id) /\ ExactlyOneObject(rls_policies[id])

\* a record created by CreateRLSPolicy whose definition a later
\* UpdateRLSPolicy has replaced, settled again.
SettledAfterUpdate ==
    \E p \in Handlers, id \in settled \cap created :
        /\ Finished(p, "update") /\ status[p] = StatusOK /\ param[p] = {id}
        /\ oldPolicy[p].definition # policy[p].definition

Taken(name, tableName) ==
    \E id \in PolicyIDs :
        /\ Persisted(id)
        /\ rls_policies[id].name = name
        /\ rls_policies[id].table_name = tableName

\* C3: when CreateRLSPolicy checks a (name, table_name) pair that a persisted
\* record holds, it answers 409 and changes nothing: no row is inserted, and the
\* task sends neither INSERT nor ALTER TABLE ... ENABLE ROW LEVEL SECURITY nor
\* CREATE POLICY.
C3_DuplicateCreateConflicts ==
    /\ [][\A p \in Handlers :
            (StepsFrom(p, "c_unique") /\ Taken(req[p].name, req[p].table_name)) =>
                /\ pc'[p] = "done"
                /\ status'[p] = StatusConflict
                /\ UNCHANGED db]_vars
    /\ [](\A p \in Handlers :
            (Finished(p, "create") /\ status[p] = StatusConflict) =>
                Sent(p, "INSERT") \cup Sent(p, "ALTER TABLE")
                    \cup Sent(p, "CREATE POLICY") = {})

\* C3 witness: a CreateRLSPolicy answered 409 while a record with its pair is
\* persisted.
C3_Witness ==
    \E p \in Handlers :
        /\ Finished(p, "create") /\ status[p] = StatusConflict
        /\ Taken(req[p].name, req[p].table_name)

\* C4: no two persisted policy records have the same (name, table_name) pair.
C4_UniqueNameTable ==
    \A a, b \in PolicyIDs :
        (a # b /\ Persisted(a) /\ Persisted(b)) =>
            <<rls_policies[a].name, rls_policies[a].table_name>>
                # <<rls_policies[b].name, rls_policies[b].table_name>>

\* C4 witness: two records are persisted, and a request that had passed the
\* handler's own uniqueness check was refused by the engine when it wrote.
C4_Witness ==
    /\ \A id \in PolicyIDs : Persisted(id)
    /\ faults = 0
    /\ \E p \in Handlers :
            \E i \in Sent(p, "INSERT") \cup Sent(p, "UPDATE") : ~stmts[p][i].ok

C6_DeleteAfterOutOfBandDrop ==
    /\ [][\A p \in Handlers :
            (StepsFrom(p, "d_drop")
             /\ ObjectsAt(policy[p].name, policy[p].table_name) = {}) =>
                /\ pc'[p] = "d_delete"
                /\ stmts'[p][Len(stmts'[p])].ok
                /\ pg_policies' = pg_policies]_vars
    /\ [][\A p \in Handlers, id \in PolicyIDs :
            (StepsFrom(p, "d_delete") /\ param[p] = {id}) =>
                /\ rls_policies'[id] = NoRow
                /\ status'[p] = StatusNoContent]_vars

\* C6 witness: the only request served is a delete, answered 204, of a record
\* whose enforcement object had been dropped out of band.
C6_Witness ==
    \E p \in Handlers, id \in PolicyIDs :
        /\ Finished(p, "delete") /\ param[p] = {id}
        /\ status[p] = StatusNoContent
        /\ served = 1
        /\ <<policy[p].name, policy[p].table_name>> \in outOfBand
        /\ ~Persisted(id)

\* a CreateRLSPolicy that inserted its row and then failed
FailedAfterInsert(p) ==
    /\ Finished(p, "create")
    /\ status[p] # StatusCreated
    /\ \E i \in Sent(p, "INSERT") : stmts[p][i].ok

Writes == {i \in DOMAIN sent : ~isSelectQuery(sent[i].sql)}
Reads == {i \in DOMAIN sent : isSelectQuery(sent[i].sql)}

\* C8: ExecuteQuery sends a statement classified as non-select to the database
\* only after CheckRLS was called for the caller and allowed it without error;
\* a non-select statement of a request without principal is answered 403 and
\* never sent; a statement classified as select is sent without any call of
\* CheckRLS
C8_WritesPassTheGate ==
    /\ \A i \in Writes :
        /\ sent[i].via = "Exec"
        /\ Len(rlsCheck) = 1
        /\ rlsCheck[1].user = user
        /\ rlsCheck[1].allowed
        /\ ~rlsCheck[1].err
    /\ (/\ qpc = "done"
        /\ qreq.parsed
        /\ qreq.SQL # <<>>
        /\ ~isSelectQuery(qreq.SQL)
        /\ user = NoUser) => (qstatus = StatusForbidden /\ sent = <<>>)
    /\ \A i \in Reads : sent[i].via = "Query" /\ rlsCheck = <<>>
    /\ (qpc = "q_run" /\ user = NoUser) => isSelectQuery(qreq.SQL)

\* a write has passed the gate and reached the database
C8_Witness ==
    /\ qpc = "done"
    /\ Writes # {}
    /\ user # NoUser
    /\ qstatus = StatusOK

\* a classifier that compares the SELECT prefix in any letter case
isSelectQueryAnyCase(sql) ==
    LET trimmedSQL == trimSpaces(sql) IN
    /\ Len(trimmedSQL) >= 6
    /\ ToUpperText(SubSeq(trimmedSQL, 1, 6)) = SELECT
    /\ ~ \E kw \in {INSERT, UPDATE, DELETE, DROP, ALTER, CREATE} :
            containsString(trimmedSQL, kw)


\* C9: isSelectQuery answers true exactly when the statement, its whitespace
\* stripped, begins with SELECT in any letter case and holds none of INSERT,
\* UPDATE, DELETE, DROP, ALTER, CREATE in any letter case
C9_SelectInAnyCase ==
    (qpc \in {"q_run", "done"} /\ qreq.parsed /\ qreq.SQL # <<>>) =>
        (isSelect = isSelectQueryAnyCase(qreq.SQL))

(***************************************************************************)
(* Properties of the generated SQL.                                        *)
(***************************************************************************)
RECURSIVE ReadQuoted(_, _)
\* the way the database reads a quoted identifier whose opening quote is
\* past: up to the first quote that is not doubled; [ok, name, rest]
ReadQuoted(t, name) ==
    IF t = <<>> THEN [ok |-> FALSE, name |-> name, rest |-> <<>>]
    ELSE IF t[1] # Quote THEN ReadQuoted(Tail(t), Append(name, t[1]))
    ELSE IF Len(t) >= 2 /\ t[2] = Quote
         THEN ReadQuoted(SubSeq(t, 3, Len(t)), Append(name, Quote))
         ELSE [ok |-> TRUE, name |-> name, rest |-> Tail(t)]

\* the piece is one quoted identifier that the database reads back as the
\* name it embeds, nothing left over
QuotedIdentifier(piece) ==
    /\ piece.text # <<>>
    /\ piece.text[1] = Quote
    /\ LET r == ReadQuoted(Tail(piece.text), <<>>)
       IN  r.ok /\ r.name = piece.of[1] /\ r.rest = <<>>

\* the pieces of the generated statements that embed an identifier
IdentifierPieces ==
    UNION {{statements[i].sql[j] :
                j \in {k \in DOMAIN statements[i].sql : statements[i].sql[k].of # <<>>}} :
           i \in DOMAIN statements}

\* C10: every table, policy, role and column name of a request that is
\* embedded in generated SQL text is embedded as a quoted identifier with its
\* quotes escaped, so that the database reads back exactly that name
C10_IdentifiersQuoted == \A piece \in IdentifierPieces : QuotedIdentifier(piece)

(***************************************************************************)
(* Properties of the stored roles.                                         *)
(***************************************************************************)
\* C11: for every ordered list of role names, parseRoles(rolesArrayToJson(roles))
\* is the list itself: the same names in the same order
C11_RolesRoundTrip == rolesStep = "loaded" => rolesParsed = rolesGiven

(***************************************************************************)
(* Properties of the filter translators.                                   *)
(***************************************************************************)
\* the operators and the reserved parameters the specification names
SupportedOps == {eq, neq, gt, gte, lt, lte, like, in}
ReservedKeys ==
    {page, page_size, limitKey, offsetKey, sort_by, order_by, sort_order, order_dir, qKey}

\* a filter translator has run for the operation
Translated ==
    \/ built \in {"Find", "Count"}
    \/ built = "GetTableRows" /\ answer # StatusForbidden

\* the parameters the translator goes through, in the order it takes them
Candidates ==
    IF built \in {"Find", "Count"} THEN inputs.qp.Filters ELSE inputs.queryArgs

\* those that are filters
FilterEntries == SelectSeq(Candidates, LAMBDA e : e.key \notin ReservedKeys)

\* the column and the operator of a filter key; no operator for a bare column
KeyParts(key) ==
    IF built \in {"Find", "Count"} THEN SplitStr(key, <<"_", "_">>) ELSE Split(key, ".")
Supported(key) ==
    \/ Len(KeyParts(key)) = 1
    \/ Len(KeyParts(key)) = 2 /\ KeyParts(key)[2] \in SupportedOps

Range(l) == {l[i] : i \in DOMAIN l}

RECURSIVE Flatten(_)
Flatten(conditions) ==
    IF conditions = <<>> THEN <<>> ELSE conditions[1] \o Flatten(Tail(conditions))

\* the numbers of the placeholders of a fragment, in order of appearance
PlaceholderNumbers(pieces) ==
    LET at == SelectSeq(pieces, LAMBDA x : \E n \in 1 .. Len(pieces) : x = Placeholder(n))
    IN  [i \in DOMAIN at |-> CHOOSE n \in 1 .. Len(pieces) : at[i] = Placeholder(n)]

\* the conditions that compare a column
Comparisons ==
    SelectSeq(translated.conditions, LAMBDA c : \E k \in DOMAIN c : c[k].of # <<>>)
ColumnOf(c) == c[CHOOSE k \in DOMAIN c : c[k].of # <<>>].of[1]

\* the argument is the value of the filter, whole, between wildcards, or one
\* element of its list
BoundFrom(arg, value) ==
    \/ arg \in {value, <<"%">> \o value \o <<"%">>}
    \/ \E k \in DOMAIN Split(value, ",") :
        arg \in {Split(value, ",")[k], TrimSpace(Split(value, ",")[k])}

\* the request holds filters only where the translator looks for filters, each
\* key once and each with a supported operator
FiltersOnly ==
    /\ Translated
    /\ built = "GetTableRows" =>
        \A e \in Range(Candidates) :
            e.key \in ReservedKeys => e.key \in {page, page_size, order_by, order_dir}
    /\ built \in {"Find", "Count"} => FilterEntries = Candidates
    /\ DistinctKeys(FilterEntries)
    /\ \A e \in Range(FilterEntries) : Supported(e.key)

\* one comparison per filter key in the order of the keys, the placeholders
\* numbered 1..N as they appear, N arguments, the i-th one taken from the
\* filter whose comparison holds $i
WellFormedWhere ==
    /\ Len(Comparisons) = Len(FilterEntries)
    /\ \A i \in DOMAIN Comparisons :
        ColumnOf(Comparisons[i]) = KeyParts(FilterEntries[i].key)[1]
    /\ PlaceholderNumbers(Flatten(translated.conditions))
        = [i \in 1 .. Len(translated.args) |-> i]
    /\ \A i \in DOMAIN Comparisons :
        \A n \in Range(PlaceholderNumbers(Comparisons[i])) :
            BoundFrom(translated.args[n], FilterEntries[i].value)

\* C12: for every set of filter keys with supported operators, the WHERE
\* fragment of either translator holds exactly one comparison per key, its
\* placeholders are numbered $1..$N in order of appearance, and the argument
\* list has N elements, the i-th one bound to $i
C12_OneComparisonPerKey == FiltersOnly => WellFormedWhere

\* where the fragment is well formed: every filter has a value
FiltersWithValues ==
    FiltersOnly /\ \A e \in Range(FilterEntries) : e.value # <<>>
WellFormedWhenValued == FiltersWithValues => WellFormedWhere

\* the parameters of the request as they were submitted
Submitted ==
    IF built \in {"Find", "Count"} THEN inputs.values ELSE inputs.queryArgs

\* C13: no parameter whose key is page, page_size, limit, offset, sort_by,
\* order_by, sort_order, order_dir or q yields a filter predicate or a bound
\* argument, in either translator (the filters of the requests name the
\* columns id and a"b only, so a comparison on a column named like a reserved
\* key comes from the reserved parameter)
C13_ReservedNeverFilters ==
    Translated =>
        \A e \in Range(Submitted) :
            e.key \in ReservedKeys =>
                \A c \in Range(Comparisons) : ColumnOf(c) # e.key

\* C14: in the statement of QueryBuilder.Find every placeholder $i refers to
\* the i-th element of the combined argument list (the arguments of the WHERE
\* clause, then those of the pagination): the placeholders read $1..$N in the
\* order the arguments were appended, also with a q search
C14_FindPlaceholdersAligned ==
    built = "Find" =>
        PlaceholderNumbers(statements[1].sql) = [i \in 1 .. Len(statements[1].args) |-> i]

\* where Find does align them: the WHERE clause binds nothing
FindAlignedWithoutFilters ==
    built = "Find" /\ translated.args = <<>> =>
        PlaceholderNumbers(statements[1].sql) = [i \in 1 .. Len(statements[1].args) |-> i]

\* the list of an in filter holds nothing once it is split at the commas and
\* its elements are trimmed
EmptyList(value) ==
    \A k \in DOMAIN Split(value, ",") : TrimSpace(Split(value, ",")[k]) = <<>>
EmptyInFilter(e) ==
    /\ Len(KeyParts(e.key)) = 2
    /\ KeyParts(e.key)[2] = in
    /\ EmptyList(e.value)

\* C15: a request with an in filter whose list is empty after splitting and
\* trimming (the value "" or ",") is rejected: the filter is neither dropped
\* nor translated to an IN over empty strings, so no statement is built for it
C15_EmptyInRejected ==
    Translated /\ (\E e \in Range(Submitted) : EmptyInFilter(e)) => statements = <<>>

\* what the translators do with such a filter: the query builder drops the
\* value "" and compares with one empty string per element otherwise, the
\* table handler always compares with one empty string per element
EmptyInTranslated ==
    Translated /\ Len(Submitted) = 1 /\ EmptyInFilter(Submitted[1]) =>
        /\ statements # <<>>
        /\ IF built \in {"Find", "Count"} /\ Submitted[1].value = <<>>
           THEN translated.conditions = <<>>
           ELSE /\ Len(Comparisons) = 1
                /\ translated.args = [k \in DOMAIN Split(Submitted[1].value, ",") |-> <<>>]

\* the operator of a filter key, eq for a bare column
OperatorOfKey(key) == IF Len(KeyParts(key)) = 2 THEN KeyParts(key)[2] ELSE eq

\* the comparison and the argument the specification gives every operator
ExpectedOperator(op) ==
    CASE op = eq -> " = "
      [] op = neq -> " != "
      [] op = gt -> " > "
      [] op = gte -> " >= "
      [] op = lt -> " < "
      [] op = lte -> " <= "
      [] op = like -> " ILIKE "
ExpectedArgument(op, value) ==
    IF op = like THEN <<"%">> \o value \o <<"%">> ELSE value

\* the operator a comparison was written with, and the argument it binds
OperatorOf(c) == c[Len(c) - 1].text[1]
ArgumentOf(c) == translated.args[PlaceholderNumbers(c)[1]]

\* the i-th filter of the request is translated as the specification says
AsSpecified(i) ==
    LET op == OperatorOfKey(FilterEntries[i].key) IN
    /\ OperatorOf(Comparisons[i]) = ExpectedOperator(op)
    /\ ArgumentOf(Comparisons[i]) = ExpectedArgument(op, FilterEntries[i].value)

\* C16: eq, neq, gt, gte, lt and lte translate to =, !=, >, >=, < and <= binding
\* the raw value, like to a case-insensitive match binding %value%, and a bare
\* column to =, for column.operator keys and for column__operator keys
C16_OperatorSemantics ==
    FiltersWithValues =>
        \A i \in DOMAIN FilterEntries :
            OperatorOfKey(FilterEntries[i].key) # in => AsSpecified(i)

\* the two translations that differ: neq in the query builder, like in the
\* table handler
Differs(key) ==
    \/ built \in {"Find", "Count"} /\ OperatorOfKey(key) = neq
    \/ built = "GetTableRows" /\ OperatorOfKey(key) = like
OperatorSemanticsElsewhere ==
    FiltersWithValues =>
        \A i \in DOMAIN FilterEntries :
            LET key == FilterEntries[i].key IN
            /\ OperatorOfKey(key) # in /\ ~Differs(key) => AsSpecified(i)
            /\ built = "GetTableRows" /\ OperatorOfKey(key) = like =>
                OperatorOf(Comparisons[i]) = " LIKE "
            /\ built \in {"Find", "Count"} /\ OperatorOfKey(key) = neq =>
                OperatorOf(Comparisons[i]) = " = "

(***************************************************************************)
(* Properties of the row listings.                                         *)
(***************************************************************************)
\* the statements that list rows: the one of Find, the first one of GetTableRows
Listings ==
    IF built = "Find" \/ (built = "GetTableRows" /\ statements # <<>>)
    THEN {statements[1].sql} ELSE {}

\* where a statement starts its ORDER BY
OrderByAt(sql) ==
    {k \in DOMAIN sql : sql[k] \in {Lit("ORDER BY "), Lit(" ORDER BY ")}}

\* the sort column as the specification sanitizes it
Kept(name) ==
    LET kept == SelectSeq(name, LAMBDA c : c \in WordChars)
    IN  IF kept = <<>> THEN idColumn ELSE kept

\* the ORDER BY at k sorts by the sanitized column, bare or between quotes,
\* in some direction and then, unless that column is id, by id in the same
\* direction
SortedAsSpecified(sql, k) ==
    /\ k + 3 <= Len(sql)
    /\ sql[k + 1].of # <<>>
    /\ sql[k + 1].text \in {Kept(sql[k + 1].of[1]), Sanitize(Kept(sql[k + 1].of[1]))}
    /\ sql[k + 1].text \notin {idColumn, Sanitize(idColumn)} =>
        /\ k + 5 <= Len(sql)
        /\ sql[k + 4] = Lit(", id ")
        /\ sql[k + 5].text = sql[k + 3].text

\* C17: every ORDER BY emitted for a row listing sorts by the sanitized column
\* (letters, digits, underscore and dot kept, id when nothing is left) and
\* appends id in the same direction as a tiebreak unless the column is id
C17_OrderByWithTiebreak ==
    \A sql \in Listings : \A k \in OrderByAt(sql) : SortedAsSpecified(sql, k)

\* the listings of the query builder are all ordered that way
FindOrderedWithTiebreak ==
    built = "Find" =>
        /\ OrderByAt(statements[1].sql) # {}
        /\ \A k \in OrderByAt(statements[1].sql) : SortedAsSpecified(statements[1].sql, k)

\* the listings of the table handler: no ORDER BY without order_by, and with
\* it the quoted column alone, no tiebreak
RowsOrderedByOneColumn ==
    built = "GetTableRows" /\ statements # <<>> =>
        LET sql == statements[1].sql
            orderBy == Query(inputs.queryArgs, order_by, <<>>)
        IN  IF orderBy = <<>> THEN OrderByAt(sql) = {}
            ELSE \A k \in OrderByAt(sql) :
                    /\ sql[k + 1].text = Sanitize(orderBy)
                    /\ sql[k + 4] = Lit(" LIMIT ")

\* GetTableRows went past the gate of CheckRLS
Listed == built = "GetTableRows" /\ answer # StatusForbidden

\* the positions (p-1)*s+1 .. min(p*s, M) of the matching rows
PagePositions(p, s, M) == {k \in 1 .. M : (p - 1) * s + 1 <= k /\ k <= p * s}

\* the least n with n*s >= M
CeilDiv(M, s) == CHOOSE n \in 0 .. M : n * s >= M /\ (n - 1) * s < M

\* the WHERE part of a statement of GetTableRows: what follows the table name,
\* up to the ORDER BY or the LIMIT
WhereOf(sql) ==
    LET stop == {k \in DOMAIN sql : sql[k] \in {Lit(" ORDER BY "), Lit(" LIMIT ")}}
        last == IF stop = {} THEN Len(sql)
                ELSE (CHOOSE k \in stop : \A j \in stop : k <= j) - 1
    IN  SubSeq(sql, 3, last)

\* the answer is the page of the matching rows, the total comes from a COUNT
\* with the WHERE and the arguments of the listing and no LIMIT/OFFSET
PageAnswered ==
    /\ listing.data = PagePositions(paging.page, paging.pageSize, listing.matching)
    /\ listing.total = listing.matching
    /\ listing.total_pages = CeilDiv(listing.matching, paging.pageSize)
    /\ Len(statements) = 2
    /\ statements[2].sql[1] = Lit("SELECT COUNT(*) FROM ")
    /\ WhereOf(statements[2].sql) = WhereOf(statements[1].sql)
    /\ statements[2].args = statements[1].args
    /\ \A k \in DOMAIN statements[2].sql :
        statements[2].sql[k] \notin {Lit(" LIMIT "), Lit(" OFFSET ")}

\* C18: over M matching rows a listing with page p and page size s returns
\* the rows at positions (p-1)*s+1 .. min(p*s, M), total = M from a COUNT with
\* the same WHERE and arguments and no LIMIT/OFFSET, and total_pages =
\* ceil(M/s); the request of scenario 1 with 15 matching rows is listed and
\* answers 5 rows, total 15, total_pages 2
C18_PageOfMatchingRows ==
    Listed =>
        /\ answer = StatusOK => PageAnswered
        /\ inputs.queryArgs = Scenario1 => ~Rejected(inputs.queryArgs)
        /\ inputs.queryArgs = Scenario1 /\ answer = StatusOK /\ listing.matching = 15 =>
            /\ Cardinality(listing.data) = 5
            /\ listing.total = 15
            /\ listing.total_pages = 2

\* the product (page - 1) * pageSize fits int
OffsetFits == (paging.page - 1) * paging.pageSize <= MaxInt

\* where the page is the one asked for: the offset fits int
PageAnsweredWhenOffsetFits ==
    Listed /\ answer = StatusOK /\ OffsetFits => PageAnswered

\* the request of scenario 1 is never listed: the database rejects it
Scenario1Rejected ==
    Listed /\ inputs.queryArgs = Scenario1 =>
        /\ answer = StatusInternalServerError
        /\ \E c \in Range(Comparisons) : ColumnOf(c) = sort_by

\* asked with order_by and order_dir, the listing of scenario 1 is answered
Scenario1OrderedAnswered ==
    /\ Listed
    /\ inputs.queryArgs = Scenario1Ordered
    /\ answer = StatusOK
    /\ listing.matching = 15
    /\ listing.data = 11 .. 15
    /\ listing.total = 15
    /\ listing.total_pages = 2

(***************************************************************************)
(* Properties of the paging parameters.                                    *)
(***************************************************************************)
\* the text of a paging parameter is no number that int holds
NotAnInt(text) == AtoiErr(text)

\* the request without its page and page_size
WithoutPaging(queryArgs) ==
    SelectSeq(queryArgs, LAMBDA e : e.key \notin {page, page_size})

\* GetTableRows runs with page >= 1 and 1 <= page size <= 100
PagingClamped ==
    Listed => paging.page >= 1 /\ paging.pageSize >= 1 /\ paging.pageSize <= 100

\* a page that is malformed or below 1 becomes 1, a page_size that is
\* malformed or outside 1..100 becomes 10
PagingDefaults ==
    Listed =>
        LET pageText == Query(inputs.queryArgs, page, <<"1">>)
            sizeText == Query(inputs.queryArgs, page_size, <<"1", "0">>)
        IN  /\ NotAnInt(pageText) \/ Atoi(pageText) < 1 => paging.page = 1
            /\ NotAnInt(sizeText) \/ Atoi(sizeText) < 1 \/ Atoi(sizeText) > 100 =>
                paging.pageSize = 10

\* the database rejects no listing that it would take without page and
\* page_size
PagingNeverFails ==
    Listed => (Rejected(inputs.queryArgs) => Rejected(WithoutPaging(inputs.queryArgs)))

\* ParseQueryParams keeps limit > 0 and offset >= 0, falling back to 25 and 0
LimitOffsetKept ==
    built \in {"Find", "Count"} =>
        LET limitStr == Get(inputs.values, limitKey)
            offsetStr == Get(inputs.values, offsetKey)
        IN  /\ inputs.qp.Limit > 0
            /\ inputs.qp.Offset >= 0
            /\ limitStr = <<>> \/ NotAnInt(limitStr) \/ Atoi(limitStr) <= 0 =>
                inputs.qp.Limit = 25
            /\ offsetStr = <<>> \/ NotAnInt(offsetStr) \/ Atoi(offsetStr) < 0 =>
                inputs.qp.Offset = 0

\* C19: for every page and page_size (missing, non-numeric, zero, negative,
\* oversized) GetTableRows runs with page >= 1 and 1 <= page size <= 100, a
\* malformed or out-of-range page_size becoming 10 and a malformed page or
\* one below 1 becoming 1, and never fails the request because of them;
\* ParseQueryParams keeps limit > 0 and offset >= 0, falling back to 25 and 0
C19_PagingSanitized ==
    PagingClamped /\ PagingDefaults /\ PagingNeverFails /\ LimitOffsetKept

\* what holds of the claim: the ranges, the defaults of page_size and of
\* ParseQueryParams, and the default of a page that is no number at all or
\* below 1
PagingSanitizedButOversized ==
    /\ PagingClamped
    /\ LimitOffsetKept
    /\ Listed =>
        LET pageText == Query(inputs.queryArgs, page, <<"1">>)
            sizeText == Query(inputs.queryArgs, page_size, <<"1", "0">>)
        IN  /\ ~Parsed(pageText).ok \/ Atoi(pageText) < 1 => paging.page = 1
            /\ Parsed(pageText).ok /\ Parsed(pageText).n > MaxInt => paging.page = MaxInt
            /\ NotAnInt(sizeText) \/ Atoi(sizeText) < 1 \/ Atoi(sizeText) > 100 =>
                paging.pageSize = 10
            /\ OffsetFits =>
                (Rejected(inputs.queryArgs) => Rejected(WithoutPaging(inputs.queryArgs)))

\* the LIMIT and the OFFSET written at the end of the listing
WrittenLimit == statements[1].sql[Len(statements[1].sql) - 2]
WrittenOffset == statements[1].sql[Len(statements[1].sql)]

\* C20: the LIMIT and OFFSET that GetTableRows writes into the statement are
\* non-negative for every page and page_size: offset = (page-1)*pageSize >= 0
\* for every page the handler accepts, up to the largest the parser returns
C20_LimitOffsetNonNegative ==
    Listed =>
        /\ WrittenLimit = Lit(FormatInt(paging.pageSize))
        /\ WrittenOffset = Lit(FormatInt(paging.offset))
        /\ paging.pageSize >= 0
        /\ paging.offset >= 0

\* the LIMIT is never negative, and the OFFSET is not when the product fits
LimitOffsetNonNegativeWhenFits ==
    Listed =>
        /\ WrittenLimit = Lit(FormatInt(paging.pageSize))
        /\ WrittenOffset = Lit(FormatInt(paging.offset))
        /\ paging.pageSize >= 1
        /\ OffsetFits => paging.offset = (paging.page - 1) * paging.pageSize

(***************************************************************************)
(* Properties of the row handlers.                                         *)
(***************************************************************************)
\* the identifiers a statement names, in the order it names them
Named(stmt) ==
    LET at == SelectSeq(stmt.sql, LAMBDA x : x.of # <<>>)
    IN  [i \in DOMAIN at |-> at[i].of[1]]

\* the keys of the payload that are columns of the table asked for
KnownKeys(tableName, data) ==
    IF tableName \in Tables
    THEN {c \in DOMAIN data : \E i \in DOMAIN Schema[tableName].columns :
                                 Schema[tableName].columns[i] = c}
    ELSE {}

\* CreateTableRow went past the authorization gate
CreateBuilt == built = "CreateTableRow" /\ ~Refused(inputs.user)

\* C21: CreateTableRow keeps exactly the payload keys that are columns of
\* the table: the i-th column of its INSERT is bound to placeholder $i and to
\* the i-th argument, which is the payload's value for that column; unknown
\* keys raise no error of their own; and when no key is kept the request is
\* answered 400 and no INSERT is sent, the table staying as it was.
C21_CreateKeepsKnownColumns ==
    CreateBuilt =>
        LET known == KnownKeys(inputs.tableName, inputs.data) IN
        IF known = {}
        THEN answer = StatusBadRequest /\ statements = <<>> /\ rows = rowsBefore
        ELSE /\ answer # StatusBadRequest
             /\ Len(statements) = 1
             /\ LET columnNames == Tail(Named(statements[1])) IN
                /\ Range(columnNames) = known
                /\ Len(columnNames) = Cardinality(known)
                /\ PlaceholderNumbers(statements[1].sql)
                       = [i \in DOMAIN columnNames |-> i]
                /\ statements[1].args
                       = [i \in DOMAIN columnNames |-> inputs.data[columnNames[i]]]
                /\ answer = StatusCreated =>
                       /\ result.found
                       /\ \A c \in known : result.values[c] = inputs.data[c]
                       /\ rows[inputs.tableName]
                              = Append(rowsBefore[inputs.tableName], result.values)

\* C21 witness: a payload with a column and an unknown key was inserted
\* without the unknown key
C21_Witness_UnknownKeyDropped ==
    /\ CreateBuilt
    /\ answer = StatusCreated
    /\ bogus \in DOMAIN inputs.data
    /\ Len(statements[1].args) = 2

\* a payload of unknown keys alone was answered 400 with no INSERT
OnlyUnknownKeysRejected ==
    /\ CreateBuilt
    /\ inputs.data = Entry(bogus, "1")
    /\ inputs.tableName = users
    /\ answer = StatusBadRequest
    /\ statements = <<>>

\* a handler that looks one row up by its id sent its statement: it passed
\* the authorization gate, found the key column of a table that exists and,
\* for an update, was given columns of that table to set
LookupSent ==
    /\ built \in {"GetTableRowById", "UpdateTableRow", "DeleteTableRow"}
    /\ ~Refused(inputs.user)
    /\ inputs.tableName \in Tables
    /\ Len(statements) = 1
    /\ \A c \in DOMAIN inputs.data : c \in KnownKeys(inputs.tableName, inputs.data)

\* the column the statement compares with the id: the last it names
KeyColumn == Named(statements[1])[Len(Named(statements[1]))]

\* the rows the statement found at the start of the request
Matched ==
    {i \in DOMAIN rowsBefore[inputs.tableName] :
        rowsBefore[inputs.tableName][i][KeyColumn] = inputs.id}

UpdateOfNoRowNotFound ==
    /\ LookupSent
    /\ built = "UpdateTableRow"
    /\ Matched = {}
    /\ answer = StatusNotFound

\* the rows of the table asked for that the request removed or changed
Affected ==
    LET before == rowsBefore[inputs.tableName]
        after == rows[inputs.tableName]
    IN  IF built = "DeleteTableRow" THEN Len(before) - Len(after)
        ELSE Cardinality({i \in DOMAIN before : after[i] # before[i]})

\* UpdateTableRow or DeleteTableRow answered a row
RowAnswered ==
    /\ built \in {"UpdateTableRow", "DeleteTableRow"}
    /\ answer = StatusOK
    /\ result.found

\* C29: a request to DeleteTableRow or UpdateTableRow that answers a row has
\* removed or changed no other row, whatever the primary key of the table.
C29_AtMostOneRowAffected ==
    RowAnswered => Affected <= 1

\* on a table whose primary key is one column the row answered is the only
\* one removed or changed
OneRowAffectedUnderSingleKey ==
    (RowAnswered /\ Cardinality(Schema[inputs.tableName].primary) = 1) => Affected <= 1

\* a delete on the table without a primary key removed two rows
TwoRowsDeletedWithoutKey ==
    /\ RowAnswered
    /\ built = "DeleteTableRow"
    /\ Schema[inputs.tableName].primary = {}
    /\ Affected = 2

\* a delete on the table with a two-column key removed two rows
TwoRowsDeletedUnderCompositeKey ==
    /\ RowAnswered
    /\ built = "DeleteTableRow"
    /\ Cardinality(Schema[inputs.tableName].primary) = 2
    /\ Affected = 2

\* an update on the table without a primary key changed two rows
TwoRowsUpdatedWithoutKey ==
    /\ RowAnswered
    /\ built = "UpdateTableRow"
    /\ Schema[inputs.tableName].primary = {}
    /\ Affected = 2

(***************************************************************************)
(* Properties of RunMigrations.                                            *)
(***************************************************************************)
\* no version occurs twice in the sequence
NoRepeat(l) == \A i, j \in DOMAIN l : l[i] = l[j] => i = j

\* the versions of the sequence ascend
Ascending(l) == \A i, j \in DOMAIN l : i < j => Less(l[i], l[j])

\* C23: invoked one after another, RunMigrations executes the pending
\* migrations in ascending order of version and never one whose version it
\* read from schema_migrations: the SQL of each migration is committed at
\* most once, and once an invocation has returned nil no later invocation
\* executes the SQL of any migration.
C23_MigrationsAppliedOnce ==
    /\ NoRepeat(applications)
    /\ \A p \in Processes :
        /\ Ascending(ran[p])
        /\ \A i \in DOMAIN ran[p] : ran[p][i] \notin appliedMigrations[p]
        /\ succeeded => ran[p] = <<>>

\* C23 witness: after an invocation that returned nil, a second one went
\* through every migration and returned without executing any
C23_Witness_SecondRunSkipsAll ==
    \E p \in Processes :
        /\ succeeded
        /\ mpc[p] = "returned"
        /\ appliedMigrations[p] = {v001, v002, v010}
        /\ ran[p] = <<>>
        /\ Len(applications) = 3

\* an invocation that met an earlier failure applied only what was pending
RestAppliedAfterFailure ==
    \E p \in Processes :
        /\ mpc[p] = "returned"
        /\ appliedMigrations[p] = {v001}
        /\ ran[p] = <<v002, v010>>
        /\ applications = <<v001, v002, v010>>

\* the invocation of p failed at a migration
FailedAtMigration(p) == mpc[p] = "failed" /\ failure[p].version # <<>>

\* C24: when an invocation fails at migration k its transaction is gone
\* with nothing persisted, neither the effects of k nor its version; no
\* migration after k was started and k was tried once; the migrations the
\* invocation executed before k are applied and recorded; and at all times a
\* version is recorded only if the SQL of its migration was committed.
C24_FailureRollsBackAndStops ==
    /\ \A v \in schema_migrations : \E i \in DOMAIN applications : applications[i] = v
    /\ \A p \in Processes :
        FailedAtMigration(p) =>
            LET k == failure[p].version IN
            /\ tx[p] = NoTx
            /\ k \notin schema_migrations
            /\ \A i \in DOMAIN applications : applications[i] # k
            /\ NoRepeat(ran[p])
            /\ \A i \in DOMAIN ran[p] :
                /\ ~Less(k, ran[p][i])
                /\ ran[p][i] # k =>
                    /\ ran[p][i] \in schema_migrations
                    /\ \E j \in DOMAIN applications : applications[j] = ran[p][i]

\* C24 witness: the recording of the last version failed after the two
\* migrations before it were committed by the same invocation
C24_Witness_RecordFailed ==
    \E p \in Processes :
        /\ FailedAtMigration(p)
        /\ failure[p].step = "record"
        /\ failure[p].version = v010
        /\ ran[p] = <<v001, v002, v010>>
        /\ schema_migrations = {v001, v002}

\* the SQL of a migration failed
ExecuteFailed ==
    \E p \in Processes :
        /\ FailedAtMigration(p)
        /\ failure[p].step = "execute"
        /\ failure[p].version = v002
        /\ schema_migrations = {v001}

\* C30: when processes run RunMigrations side by side, each having read
\* the applied versions before another commits, the SQL of every version is
\* committed at most once and a version is recorded only with its SQL: the
\* attempt that comes second fails with its transaction rolled back whole.
C30_ConcurrentRunsCommitOnce ==
    /\ NoRepeat(applications)
    /\ schema_migrations = {applications[i] : i \in DOMAIN applications}
    /\ \A p \in Processes :
        /\ mpc[p] \in {"idle", "create", "read", "loop", "returned", "failed"} => tx[p] = NoTx
        /\ FailedAtMigration(p) => failure[p].version \notin tx[p].effects

\* C30 witness: with no failure injected, a process that had read the
\* applied versions before the other committed lost the insert of a version
\* the other had committed meanwhile
C30_Witness_SecondAttemptRolledBack ==
    \E p \in Processes :
        /\ FailedAtMigration(p)
        /\ trouble = MaxTrouble
        /\ failure[p].version \in schema_migrations
        /\ failure[p].version \notin appliedMigrations[p]
        /\ failure[p].version \in {ran[p][i] : i \in DOMAIN ran[p]}
        /\ tx[p] = NoTx

(***************************************************************************)
(* Properties of policy requests that overlap or fail.                     *)
(***************************************************************************)
\* the INSERT of a create was refused by the engine for its values alone:
\* nothing failed for outside reasons and the action passes its check
RefusedAsDuplicate(p) ==
    /\ Finished(p, "create")
    /\ faults = 0
    /\ ActionCheck(req[p].action)
    /\ \E i \in Sent(p, "INSERT") : ~stmts[p][i].ok

\* C25: when two CreateRLSPolicy requests with the same (name, table_name)
\* overlap, at most one row and at most one policy object of that name on
\* that table result, and the request that loses answers 409, not 500.
C25_ConcurrentCreateOneWinner ==
    /\ \A a, b \in PolicyIDs :
        (a # b /\ Persisted(a) /\ Persisted(b)) =>
            ~(/\ rls_policies[a].name = rls_policies[b].name
              /\ rls_policies[a].table_name = rls_policies[b].table_name)
    /\ \A o \in pg_policies : ObjectsAt(o.policyname, o.tablename) = {o}
    /\ \A p \in Handlers : RefusedAsDuplicate(p) => status[p] = StatusConflict

\* overlapping creates leave at most one row and one policy object under a
\* name on a table
ConcurrentCreateOneRowOneObject ==
    /\ \A a, b \in PolicyIDs :
        (a # b /\ Persisted(a) /\ Persisted(b)) =>
            ~(/\ rls_policies[a].name = rls_policies[b].name
              /\ rls_policies[a].table_name = rls_policies[b].table_name)
    /\ \A o \in pg_policies : ObjectsAt(o.policyname, o.tablename) = {o}

\* of two overlapping creates of one policy, one answered 201 and the other,
\* refused at its INSERT, 500
LoserAnswered500 ==
    \E p, q \in Handlers :
        /\ p # q
        /\ Finished(q, "create") /\ status[q] = StatusCreated
        /\ RefusedAsDuplicate(p)
        /\ req[p].name = req[q].name /\ req[p].table_name = req[q].table_name
        /\ status[p] = StatusInternalServerError

\* every persisted record has exactly one policy object, which carries its
\* values, and every policy object belongs to a persisted record
ObjectsMatchRecords ==
    /\ \A id \in PolicyIDs : Persisted(id) => ExactlyOneObject(rls_policies[id])
    /\ \A o \in pg_policies :
        \E id \in PolicyIDs : Persisted(id) /\ Mirrors(o, rls_policies[id])

\* the requests of all tasks, updates and deletes of one policy, have been
\* answered with success, no statement having failed for outside reasons
AllSucceededOnOnePolicy ==
    /\ faults = 0
    /\ \A p \in Handlers :
        /\ pc[p] = "done"
        /\ kind[p] \in {"update", "delete"}
        /\ status[p] \in {StatusOK, StatusNoContent}
    /\ \A p, q \in Handlers : param[p] = param[q]

\* C26: after overlapping UpdateRLSPolicy and DeleteRLSPolicy requests on
\* one policy have all been answered, the policy objects match the
\* persisted records: one object with the record's values for each record,
\* none for a deleted record. Stated for requests that all succeeded.
C26_ObjectsMatchAfterConcurrentRequests ==
    AllSucceededOnOnePolicy => ObjectsMatchRecords

\* two updates of one policy overlapped, both succeeded, and the object in
\* force is not the one of the record
ObjectOfLosingUpdate ==
    /\ AllSucceededOnOnePolicy
    /\ \A p \in Handlers : kind[p] = "update"
    /\ \E id \in PolicyIDs :
        /\ Persisted(id)
        /\ \E o \in pg_policies : ~Mirrors(o, rls_policies[id])

\* an update and a delete of one policy overlapped, both succeeded, and a
\* policy object is left whose record is gone
ObjectOutlivesDeletedRecord ==
    \E p, q \in Handlers :
        /\ Finished(p, "update") /\ status[p] = StatusOK
        /\ Finished(q, "delete") /\ status[q] = StatusNoContent
        /\ param[p] = param[q]
        /\ faults = 0
        /\ \A id \in param[q] : ~Persisted(id)
        /\ pg_policies # {}

\* C27: whenever no policy request is in progress, every policy object has a
\* persisted record with its name and table; requests run one at a time,
\* with any of their statements failing.
C27_NoObjectWithoutRecord ==
    Quiet =>
        \A o \in pg_policies :
            \E id \in PolicyIDs :
                /\ Persisted(id)
                /\ rls_policies[id].name = o.policyname
                /\ rls_policies[id].table_name = o.tablename

\* an update that renamed the record and failed at its DROP POLICY left the
\* object of the old name in force
RenamedRecordKeepsOldObject ==
    \E p \in Handlers, id \in PolicyIDs :
        /\ Finished(p, "update") /\ status[p] = StatusInternalServerError
        /\ param[p] = {id}
        /\ \E i \in Sent(p, "DROP POLICY") : ~stmts[p][i].ok
        /\ Persisted(id)
        /\ rls_policies[id].name # oldPolicy[p].name
        /\ ObjectsAt(oldPolicy[p].name, oldPolicy[p].table_name) # {}

\* an update failed at its apply step, ALTER TABLE or CREATE POLICY
FailedAtApply(p) ==
    /\ Finished(p, "update")
    /\ status[p] # StatusOK
    /\ \E i \in Sent(p, "ALTER TABLE") \cup Sent(p, "CREATE POLICY") : ~stmts[p][i].ok

IncompleteUpdateWritten ==
    \E p \in Handlers, id \in PolicyIDs :
        /\ FailedAtApply(p)
        /\ param[p] = {id}
        /\ req[p] = EmptyBody
        /\ rls_policies[id] = RowOf(id, EmptyBody)

=============================================================================
